---- MODULE Spec2Model ----
(***************************************************************************)
(* ProxmoxEmCP server (Node.js, v0.4.2): the startup of the server, its    *)
(* degraded-mode guard, the tool catalogue, the tool-call dispatcher and   *)
(* the ProxmoxManager operations behind it, as a state machine.            *)
(*                                                                         *)
(* JavaScript values are tagged records, so that values of different       *)
(* JavaScript types can be compared: the field t is the typeof-like tag.   *)
(* An object is a function from its own keys to values; a key that is not  *)
(* in the DOMAIN is an absent key.                                         *)
(***************************************************************************)
EXTENDS Integers, Sequences, FiniteSets, TLC

VARIABLES env, pc, proxmox, initializationError, connected, exited,
          request, requests, response, cluster, earlier, inflight

vars == <<env, pc, proxmox, initializationError, connected, exited,
          request, requests, response, cluster, earlier, inflight>>

-----------------------------------------------------------------------------
(* JavaScript values *)

Undefined == [t |-> "undefined"]

Null == [t |-> "null"]

Str(s) == [t |-> "string", v |-> s]

Num(n) == [t |-> "number", v |-> n]

Bool(b) == [t |-> "boolean", v |-> b]

Arr(s) == [t |-> "array", v |-> s]

Obj(r) == [t |-> "object", v |-> r]

EmptyObj == Obj([k \in {} |-> Undefined])

RECURSIVE Join(_)
\* The string spelled by a sequence of characters.
Join(cs) == IF cs = <<>> THEN "" ELSE Head(cs) \o Join(Tail(cs))

\* A string whose characters the program inspects (split, includes).
Text(cs) == [t |-> "string", v |-> Join(cs), chars |-> cs]

\* JavaScript truthiness: undefined, null, "", 0 and false are falsy.
Truthy(x) ==
  CASE x.t = "undefined" -> FALSE
    [] x.t = "null" -> FALSE
    [] x.t = "string" -> x.v # ""
    [] x.t = "number" -> x.v # 0
    [] x.t = "boolean" -> x.v
    [] OTHER -> TRUE

Nullish(x) == x.t \in {"undefined", "null"}

Has(o, k) == o.t = "object" /\ k \in DOMAIN o.v

\* o.k for a value o that is not undefined or null.
Get(o, k) ==
  IF Has(o, k) THEN o.v[k]
  ELSE IF k = "length" /\ o.t \in {"array", "string"} THEN Num(Len(o.v))
  ELSE Undefined

\* a || b
Or(a, b) == IF Truthy(a) THEN a ELSE b

\* `${x}` in a template literal.
ToStr(x) ==
  CASE x.t = "undefined" -> "undefined"
    [] x.t = "null" -> "null"
    [] x.t = "string" -> x.v
    [] x.t = "number" -> ToString(x.v)
    [] x.t = "boolean" -> IF x.v THEN "true" ELSE "false"
    [] x.t = "array" -> "[array]"
    [] OTHER -> "[object Object]"

\* Can for (const x of v) iterate v?  Arrays and strings are iterable.
Iterable(x) == x.t \in {"array", "string"}

\* The TypeError a handler's catch observes: only its message is used.
TypeError(msg) == [message |-> msg]

-----------------------------------------------------------------------------
(* Bounds *)

\* Longest configured host string, in characters.
MaxHostLen == 2

\* Most nodes the cluster reports.
MaxNodes == 2

\* Most units (VMs or containers) one node lists.
MaxUnits == 1

\* Largest limit a get_recent_tasks call asks for.
MaxLimit == 3

\* The longest host string of the startup-only specification.
MaxLongHostLen == 7

\* Most tool calls in flight at once.
MaxInFlight == 2

-----------------------------------------------------------------------------
(* Process environment *)

HostChars == {"h", ":", "/"}

RECURSIVE CharSeqs(_)
CharSeqs(n) ==
  IF n = 0 THEN {<<>>}
  ELSE CharSeqs(n - 1) \cup
       {Append(s, c) : s \in {q \in CharSeqs(n - 1) : Len(q) = n - 1}, c \in HostChars}

HostValues == {Undefined} \cup {Text(cs) : cs \in CharSeqs(MaxHostLen)}

\* Host strings of a name (h), a port (8), ":" and "/", up to MaxLongHostLen
\* characters: long enough for <scheme>://<name>:<port>.
HostAlphabet == {"h", ":", "/", "8"}

LongHosts == {Text(cs) : cs \in UNION {[1..n -> HostAlphabet] : n \in 0..MaxLongHostLen}}

TokenValues == {Undefined, Str(""), Str("mcp")}

SecretValues == {Undefined, Str(""), Str("s3cr3t")}

Environments ==
  [PROXMOX_HOST : HostValues, PROXMOX_TOKEN_ID : TokenValues,
   PROXMOX_TOKEN_SECRET : SecretValues]

-----------------------------------------------------------------------------
(* ProxmoxManager.constructor *)

Includes(cs, c) == \E i \in 1..Len(cs) : cs[i] = c

\* Position of the first occurrence of sep in cs, 0 when there is none.
IndexOf(cs, sep) ==
  LET hits == {i \in 1..(Len(cs) - Len(sep) + 1) :
                 SubSeq(cs, i, i + Len(sep) - 1) = sep}
  IN IF hits = {} THEN 0 ELSE CHOOSE i \in hits : \A j \in hits : i <= j

RECURSIVE Split(_, _)
\* String.prototype.split with a non-empty separator.
Split(cs, sep) ==
  LET i == IndexOf(cs, sep)
  IN IF i = 0 THEN <<cs>>
     ELSE <<SubSeq(cs, 1, i - 1)>> \o Split(SubSeq(cs, i + Len(sep), Len(cs)), sep)

\* "Remove duplicate port if present": the host the constructor keeps.
StripPort(host) ==
  IF Truthy(host) /\ Includes(host.chars, ":")
  THEN LET parts == Split(host.chars, <<"/", "/">>)
       IN IF Len(parts) > 1 /\ Includes(parts[2], ":")
          THEN Text(parts[1] \o <<"/", "/">> \o Split(parts[2], <<":">>)[1])
          ELSE host
  ELSE host

MissingMessage ==
  "Missing required environment variables: PROXMOX_HOST, PROXMOX_TOKEN_ID, PROXMOX_TOKEN_SECRET"

RequestTimeout == 30000

BaseURL(host) ==
  Text(<<"h", "t", "t", "p", "s", ":", "/", "/">> \o host.chars \o
       <<":", "8", "0", "0", "6", "/", "a", "p", "i", "2", "/", "j", "s", "o", "n">>)

\* new ProxmoxManager(): either the manager or the Error it throws.
constructor(e) ==
  LET host == StripPort(e.PROXMOX_HOST)
      tokenName == e.PROXMOX_TOKEN_ID
      tokenValue == e.PROXMOX_TOKEN_SECRET
  IN IF ~Truthy(host) \/ ~Truthy(tokenName) \/ ~Truthy(tokenValue)
     THEN [ok |-> FALSE, message |-> MissingMessage]
     ELSE [ok |-> TRUE,
           this |-> [t |-> "ProxmoxManager", host |-> host,
                     baseURL |-> BaseURL(host), timeout |-> RequestTimeout]]

-----------------------------------------------------------------------------
(* Startup: main and runMCPServer *)

\* runMCPServer up to server.connect: the manager is constructed once, a
\* failure is caught and kept, and the stdio transport is connected.
runMCPServer(e) ==
  LET c == constructor(e)
  IN [proxmox |-> IF c.ok THEN c.this ELSE Null,
      initializationError |-> IF c.ok THEN Null ELSE Str(c.message),
      connected |-> TRUE,
      exited |-> FALSE]

requiredVars == {"PROXMOX_HOST", "PROXMOX_TOKEN_ID", "PROXMOX_TOKEN_SECRET"}

\* main with process.exit(1) after the missing variables are logged.
mainExiting(e) ==
  IF {v \in requiredVars : ~Truthy(e[v])} # {}
  THEN [proxmox |-> Null, initializationError |-> Null, connected |-> FALSE, exited |-> TRUE]
  ELSE runMCPServer(e)

\* main: the missing variables are only logged, the server is run anyway.
main(e) ==
  LET missing == {v \in requiredVars : ~Truthy(e[v])}
  IN runMCPServer(e)

-----------------------------------------------------------------------------
(* Tool definitions *)

NoProperties == [k \in {} |-> ""]

\* One entry of the catalogue: the name and the inputSchema (the type of
\* every property, and the required properties).
Tool(name, properties, required) ==
  [name |-> name, properties |-> properties, required |-> required]

tools ==
  <<
    Tool("get_nodes", NoProperties, {}),
    Tool("get_node_status", [node |-> "string"], {"node"}),
    Tool("get_vms", NoProperties, {}),
    Tool("get_vm_status", [node |-> "string", vmid |-> "integer"], {"node", "vmid"}),
    Tool("start_vm", [node |-> "string", vmid |-> "integer"], {"node", "vmid"}),
    Tool("stop_vm", [node |-> "string", vmid |-> "integer"], {"node", "vmid"}),
    Tool("reboot_vm", [node |-> "string", vmid |-> "integer"], {"node", "vmid"}),
    Tool("execute_vm_command", [node |-> "string", vmid |-> "integer", command |-> "string"], {"node", "vmid", "command"}),
    Tool("create_vm_snapshot", [node |-> "string", vmid |-> "integer", name |-> "string", description |-> "string"], {"node", "vmid", "name"}),
    Tool("list_vm_snapshots", [node |-> "string", vmid |-> "integer"], {"node", "vmid"}),
    Tool("get_storage", NoProperties, {}),
    Tool("get_cluster_status", NoProperties, {}),
    Tool("get_task_status", [node |-> "string", upid |-> "string"], {"node", "upid"}),
    Tool("get_containers", NoProperties, {}),
    Tool("get_container_status", [node |-> "string", vmid |-> "integer"], {"node", "vmid"}),
    Tool("start_container", [node |-> "string", vmid |-> "integer"], {"node", "vmid"}),
    Tool("stop_container", [node |-> "string", vmid |-> "integer"], {"node", "vmid"}),
    Tool("reboot_container", [node |-> "string", vmid |-> "integer"], {"node", "vmid"}),
    Tool("execute_container_command", [node |-> "string", vmid |-> "integer", command |-> "string"], {"node", "vmid", "command"}),
    Tool("create_container_snapshot", [node |-> "string", vmid |-> "integer", name |-> "string", description |-> "string"], {"node", "vmid", "name"}),
    Tool("list_container_snapshots", [node |-> "string", vmid |-> "integer"], {"node", "vmid"}),
    Tool("get_storage_details", [storage |-> "string"], {"storage"}),
    Tool("get_backups", [storage |-> "string", node |-> "string"], {}),
    Tool("get_users", NoProperties, {}),
    Tool("get_groups", NoProperties, {}),
    Tool("get_roles", NoProperties, {}),
    Tool("get_vm_network", [node |-> "string", vmid |-> "integer", vm_type |-> "string"], {"node", "vmid"}),
    Tool("get_firewall_status", [node |-> "string", vmid |-> "integer"], {"node"}),
    Tool("get_recent_tasks", [node |-> "string", limit |-> "integer"], {}),
    Tool("get_cluster_log", [max_lines |-> "integer"], {}),
    Tool("list_templates", NoProperties, {}),
    Tool("get_help", NoProperties, {})
  >>

ToolNames == {tools[i].name : i \in 1..Len(tools)}

Schema(name) == CHOOSE tl \in {tools[i] : i \in 1..Len(tools)} : tl.name = name

-----------------------------------------------------------------------------
(* The cluster's REST API, as the transport client observes it *)

\* The request fails: network error, timeout or non-2xx status.
Fail(m) == [ok |-> FALSE, message |-> m]

\* The request succeeds with this decoded body (response.data).
Reply(body) == [ok |-> TRUE, data |-> body]

\* The body nests the payload one level under the key data.
Wrapped(payload) == Reply(Obj([data |-> payload]))

FailureMessages == {"timeout of 30000ms exceeded", "Request failed with status code 500"}

Failures == {Fail(m) : m \in FailureMessages}

NodeName(i) == "pve" \o ToString(i)

NodeNames == {NodeName(i) : i \in 1..MaxNodes}

NodeEntry(n) == Obj([node |-> Str(n), status |-> Str("online")])

RECURSIVE Ascending(_, _)
\* The node names from..MaxNodes, in their order, with any of them left out.
Ascending(from, to) ==
  IF from > to THEN {<<>>}
  ELSE LET rest == Ascending(from + 1, to)
       IN rest \cup {<<NodeEntry(NodeName(from))>> \o q : q \in rest}

NodeLists == Ascending(1, MaxNodes)

\* What GET /nodes may answer.
NodesResponses ==
  Failures \cup {Wrapped(Arr(l)) : l \in NodeLists} \cup {Wrapped(Null)}

\* The i-th unit a node lists; the odd ones are templates.
Unit(i) == Obj([vmid |-> Num(100 + i), status |-> Str("running"), template |-> Num(i % 2)])

UnitLists == {[i \in 1..n |-> Unit(i)] : n \in 0..MaxUnits}

\* What a per-node listing (GET /nodes/<node>/qemu or /lxc) may answer.
ListingResponses ==
  Failures \cup {Wrapped(Arr(l)) : l \in UnitLists} \cup {Wrapped(Null)}

TaskHandle == Str("UPID:pve1:0003F1A2:qmstart:100:root@pam:")

\* What a request about one node, unit or storage may answer: a failure, a
\* task handle, a status object, a list, an explicit null, an empty body.
TargetResponses ==
  Failures \cup
  {Wrapped(TaskHandle),
   Wrapped(Obj([status |-> Str("running"), uptime |-> Num(42)])),
   Wrapped(Arr(<<Obj([name |-> Str("current")])>>)),
   Wrapped(Arr(<<>>)),
   Wrapped(Null),
   Reply(Str(""))}

StorageNames == {"local", "nas"}

\* The units of type backup and the others a storage content listing holds.
ContentItem(kind) == Obj([volid |-> Str("vol-" \o kind), content |-> Str(kind), size |-> Num(5)])

\* What GET /nodes/<node>/storage/<storage>/content may answer.
ContentResponses ==
  {Fail("Request failed with status code 500"),
   Wrapped(Arr(<<ContentItem("backup"), ContentItem("iso")>>)),
   Wrapped(Arr(<<>>))}

StorageEntry(s, content) == Obj([storage |-> Str(s), content |-> Text(content)])

BackupIso == <<"b", "a", "c", "k", "u", "p", ",", "i", "s", "o">>

\* What GET /storage may answer.
StorageResponses ==
  Failures \cup
  {Wrapped(Arr(<<StorageEntry("local", BackupIso), StorageEntry("nas", <<"i", "s", "o">>)>>)),
   Wrapped(Arr(<<StorageEntry("nas", BackupIso)>>)),
   Wrapped(Arr(<<>>)),
   Wrapped(Null)}

Task(id, start) ==
  Obj([upid |-> Str("UPID:" \o ToString(id)), type |-> Str("vzdump"), starttime |-> Num(start)])

\* What GET /nodes/<node>/tasks may answer.
TaskResponses ==
  {Fail("Request failed with status code 500"),
   Wrapped(Arr(<<Task(1, 10), Task(2, 30)>>)),
   Wrapped(Arr(<<Task(3, 20)>>)),
   Wrapped(Arr(<<>>))}

\* An upstream behaviour: the answer to every request a call may issue.
\* target, second and third answer the first, second and third kind of
\* request of an operation on one target.
DefaultUpstream ==
  [nodes |-> Wrapped(Arr(<<>>)),
   qemu |-> [n \in NodeNames |-> Wrapped(Arr(<<>>))],
   lxc |-> [n \in NodeNames |-> Wrapped(Arr(<<>>))],
   tasks |-> [n \in NodeNames |-> Wrapped(Arr(<<>>))],
   storage |-> Wrapped(Arr(<<>>)),
   content |-> [n \in NodeNames |-> [st \in StorageNames |-> Wrapped(Arr(<<>>))]],
   target |-> Wrapped(Null),
   second |-> Wrapped(Null),
   third |-> Wrapped(Null)]

\* A request: method, the segments of the path, the query string, the body.
RequestQ(method, url, query, data) ==
  [method |-> method, url |-> url, query |-> query, data |-> data]

Request(method, url, data) == RequestQ(method, url, "", data)

Last(q) == q[Len(q)]

\* The answer of the upstream up to the request rq.
Respond(up, rq) ==
  LET u == rq.url
  IN CASE u = <<"nodes">> -> up.nodes
       [] u = <<"storage">> -> up.storage
       [] Len(u) = 3 /\ u[1] = "nodes" /\ u[2] \in NodeNames /\ u[3] = "qemu" -> up.qemu[u[2]]
       [] Len(u) = 3 /\ u[1] = "nodes" /\ u[2] \in NodeNames /\ u[3] = "lxc" -> up.lxc[u[2]]
       [] Len(u) = 3 /\ u[1] = "nodes" /\ u[2] \in NodeNames /\ u[3] = "tasks" -> up.tasks[u[2]]
       [] Len(u) = 5 /\ u[1] = "nodes" /\ u[2] \in NodeNames /\ u[3] = "storage"
            /\ u[4] \in StorageNames /\ u[5] = "content" -> up.content[u[2]][u[4]]
       [] Len(u) = 5 /\ u[3] = "storage" /\ u[5] = "status" -> up.second
       [] Len(u) > 1 /\ Last(u) \in {"network-get-interfaces", "rules"} -> up.second
       [] u = <<"cluster", "resources">> /\ rq.query = "type=node" -> up.second
       [] u = <<"cluster", "resources">> /\ rq.query = "type=vm" -> up.third
       [] OTHER -> up.target

\* One request with the answer it got: an entry of the call's trace.
Exchange(up, rq) ==
  [method |-> rq.method, url |-> rq.url, query |-> rq.query, data |-> rq.data,
   response |-> Respond(up, rq)]

\* ProxmoxManager.apiCall: response.data?.data || response.data, and
\* {error: message} when the client throws.
apiCall(x) ==
  IF ~x.response.ok THEN Obj([error |-> Str(x.response.message)])
  ELSE LET body == x.response.data
           inner == IF Nullish(body) THEN Undefined ELSE Get(body, "data")
       IN Or(inner, body)

\* What a manager method hands back: its result and the requests it issued.
Outcome(result, xs) == [result |-> result, requests |-> xs]

\* A method's catch: return { error: error.message }.
Caught(e, xs) == Outcome(Obj([error |-> Str(e.message)]), xs)

-----------------------------------------------------------------------------
(* ProxmoxManager: node operations *)

NodesRequest == Request("GET", <<"nodes">>, Null)

getNodes(up) ==
  LET x == Exchange(up, NodesRequest)
      nodes == apiCall(x)
      length == IF Nullish(nodes) THEN Undefined ELSE Get(nodes, "length")
  IN Outcome(Obj([nodes |-> Or(nodes, Arr(<<>>)), count |-> Or(length, Num(0))]), <<x>>)

\* const status = await this.apiCall('GET', url); return status || {error}
StatusRead(up, url, fallback) ==
  LET x == Exchange(up, Request("GET", url, Null))
      status == apiCall(x)
  IN Outcome(Or(status, Obj([error |-> Str(fallback)])), <<x>>)

getNodeStatus(up, node) ==
  StatusRead(up, <<"nodes", ToStr(node), "status">>, "No status data returned")

-----------------------------------------------------------------------------
(* ProxmoxManager: listing the units of every node *)

\* The loop body without the assignment vm.node = nodeName.
AnnotateNothing(unit, nodeName) == unit

\* vm.node = nodeName
Annotate(unit, nodeName) ==
  Obj([k \in DOMAIN unit.v \cup {"node"} |->
         IF k = "node" THEN nodeName ELSE unit.v[k]])

RECURSIVE PerNodeStopping(_, _, _, _)
\* A loop that is left at the first listing that fails.
PerNodeStopping(up, kind, nodes, i) ==
  IF i > Len(nodes) THEN [items |-> <<>>, requests |-> <<>>]
  ELSE LET nodeName == Get(nodes[i], "node")
           x == Exchange(up, Request("GET", <<"nodes", ToStr(nodeName), kind>>, Null))
           listed == apiCall(x)
           mine == IF Truthy(listed) /\ ~Truthy(Get(listed, "error")) /\ listed.t = "array"
                   THEN [j \in 1..Len(listed.v) |-> Annotate(listed.v[j], nodeName)]
                   ELSE <<>>
           rest == IF Truthy(Get(listed, "error"))
                   THEN [items |-> <<>>, requests |-> <<>>]
                   ELSE PerNodeStopping(up, kind, nodes, i + 1)
       IN [items |-> mine \o rest.items, requests |-> <<x>> \o rest.requests]

RECURSIVE PerNode(_, _, _, _)
\* The loop over the discovered nodes, from the i-th on: every node is
\* asked for its units; a listing that failed, or that cannot be iterated,
\* contributes nothing.
PerNode(up, kind, nodes, i) ==
  IF i > Len(nodes) THEN [items |-> <<>>, requests |-> <<>>]
  ELSE LET nodeName == Get(nodes[i], "node")
           x == Exchange(up, Request("GET", <<"nodes", ToStr(nodeName), kind>>, Null))
           listed == apiCall(x)
           mine == IF Truthy(listed) /\ ~Truthy(Get(listed, "error")) /\ listed.t = "array"
                   THEN [j \in 1..Len(listed.v) |-> Annotate(listed.v[j], nodeName)]
                   ELSE <<>>
           rest == PerNode(up, kind, nodes, i + 1)
       IN [items |-> mine \o rest.items, requests |-> <<x>> \o rest.requests]

\* getVMs and getContainers: node discovery, then one listing per node.
ListUnits(up, kind, key) ==
  LET x == Exchange(up, NodesRequest)
      nodes == apiCall(x)
  IN IF ~Truthy(nodes) \/ Truthy(Get(nodes, "error"))
     THEN LET e == IF Nullish(nodes) THEN Undefined ELSE Get(nodes, "error")
          IN Outcome(Obj([error |-> Or(e, Str("Failed to get nodes"))]), <<x>>)
     ELSE IF ~Iterable(nodes)
     THEN Caught(TypeError("nodes is not iterable"), <<x>>)
     ELSE LET loop == PerNode(up, kind, nodes.v, 1)
          IN Outcome(Obj((key :> Arr(loop.items)) @@
                         [total |-> Num(Len(loop.items)),
                          nodes_checked |-> Get(nodes, "length")]),
                     <<x>> \o loop.requests)

getVMs(up) == ListUnits(up, "qemu", "vms")

getContainers(up) == ListUnits(up, "lxc", "containers")

-----------------------------------------------------------------------------
(* ProxmoxManager: operations on one VM or container *)

UnitLabel(kind) == IF kind = "qemu" THEN "VM" ELSE "Container"

\* A power action that polls the status of the task it started before it
\* answers.
PowerActionWaiting(up, kind, endpoint, verb, node, vmid) ==
  LET x == Exchange(up, Request("POST",
             <<"nodes", ToStr(node), kind, ToStr(vmid), "status", endpoint>>, Null))
      result == apiCall(x)
      y == Exchange(up, Request("GET",
             <<"nodes", ToStr(node), "tasks", ToStr(result), "status">>, Null))
  IN Outcome(Obj([success |-> Bool(TRUE),
                  task_id |-> result,
                  message |-> Str(UnitLabel(kind) \o " " \o ToStr(vmid) \o " " \o verb
                                  \o " initiated on node " \o ToStr(node))]),
             <<x, y>>)

\* startVM, stopVM, rebootVM and the three container twins: one POST to the
\* status endpoint, then the "initiated" answer built around its result.
PowerAction(up, kind, endpoint, verb, node, vmid) ==
  LET x == Exchange(up, Request("POST",
             <<"nodes", ToStr(node), kind, ToStr(vmid), "status", endpoint>>, Null))
      result == apiCall(x)
  IN Outcome(Obj([success |-> Bool(TRUE),
                  task_id |-> result,
                  message |-> Str(UnitLabel(kind) \o " " \o ToStr(vmid) \o " " \o verb
                                  \o " initiated on node " \o ToStr(node))]),
             <<x>>)

startVM(up, node, vmid) == PowerAction(up, "qemu", "start", "start", node, vmid)

stopVM(up, node, vmid) == PowerAction(up, "qemu", "shutdown", "stop", node, vmid)

rebootVM(up, node, vmid) == PowerAction(up, "qemu", "reboot", "reboot", node, vmid)

startContainer(up, node, vmid) == PowerAction(up, "lxc", "start", "start", node, vmid)

stopContainer(up, node, vmid) == PowerAction(up, "lxc", "shutdown", "stop", node, vmid)

rebootContainer(up, node, vmid) == PowerAction(up, "lxc", "reboot", "reboot", node, vmid)

\* executeVMCommand and executeContainerCommand.
Execute(up, url, command, silent) ==
  LET x == Exchange(up, Request("POST", url, Obj([command |-> command])))
      result == apiCall(x)
  IN IF ~Truthy(result) \/ Truthy(Get(result, "error"))
     THEN LET e == IF Nullish(result) THEN Undefined ELSE Get(result, "error")
          IN Outcome(Obj([error |-> Or(e, Str(silent))]), <<x>>)
     ELSE Outcome(Obj([success |-> Bool(TRUE),
                       output |-> Or(Get(result, "out-data"), Str("")),
                       exit_code |-> Or(Get(result, "exitcode"), Num(0))]),
                  <<x>>)

executeVMCommand(up, node, vmid, command) ==
  Execute(up, <<"nodes", ToStr(node), "qemu", ToStr(vmid), "agent", "exec">>, command,
          "No response from VM agent")

executeContainerCommand(up, node, vmid, command) ==
  Execute(up, <<"nodes", ToStr(node), "lxc", ToStr(vmid), "exec">>, command,
          "No response from container")

\* The snapshot request built without the test of description: the key is
\* always sent.
CreateSnapshotDescribed(up, kind, label, node, vmid, name, description) ==
  LET params == Obj([snapname |-> name, description |-> description])
      x == Exchange(up, Request("POST",
             <<"nodes", ToStr(node), kind, ToStr(vmid), "snapshot">>, params))
      result == apiCall(x)
  IN Outcome(Obj([success |-> Bool(TRUE),
                  task_id |-> result,
                  message |-> Str("Snapshot '" \o ToStr(name) \o "' creation initiated for "
                                  \o label \o " " \o ToStr(vmid))]),
             <<x>>)

\* createVMSnapshot and createContainerSnapshot.
CreateSnapshot(up, kind, label, node, vmid, name, description) ==
  LET params == IF Truthy(description)
                THEN Obj([snapname |-> name, description |-> description])
                ELSE Obj([snapname |-> name])
      x == Exchange(up, Request("POST",
             <<"nodes", ToStr(node), kind, ToStr(vmid), "snapshot">>, params))
      result == apiCall(x)
  IN Outcome(Obj([success |-> Bool(TRUE),
                  task_id |-> result,
                  message |-> Str("Snapshot '" \o ToStr(name) \o "' creation initiated for "
                                  \o label \o " " \o ToStr(vmid))]),
             <<x>>)

createVMSnapshot(up, node, vmid, name, description) ==
  CreateSnapshot(up, "qemu", "VM", node, vmid, name, description)

createContainerSnapshot(up, node, vmid, name, description) ==
  CreateSnapshot(up, "lxc", "container", node, vmid, name, description)

\* listVMSnapshots, listContainerSnapshots.
ListSnapshots(up, kind, node, vmid) ==
  LET x == Exchange(up, Request("GET",
             <<"nodes", ToStr(node), kind, ToStr(vmid), "snapshot">>, Null))
      snapshots == apiCall(x)
  IN Outcome(Obj([snapshots |-> Or(snapshots, Arr(<<>>))]), <<x>>)

listVMSnapshots(up, node, vmid) == ListSnapshots(up, "qemu", node, vmid)

listContainerSnapshots(up, node, vmid) == ListSnapshots(up, "lxc", node, vmid)

getVMStatus(up, node, vmid) ==
  StatusRead(up, <<"nodes", ToStr(node), "qemu", ToStr(vmid), "status", "current">>,
             "No status data returned")

getContainerStatus(up, node, vmid) ==
  StatusRead(up, <<"nodes", ToStr(node), "lxc", ToStr(vmid), "status", "current">>,
             "No status data returned")

-----------------------------------------------------------------------------
(* ProxmoxManager: storage and tasks *)

getStorage(up) ==
  LET x == Exchange(up, Request("GET", <<"storage">>, Null))
      storage == apiCall(x)
  IN Outcome(Obj([storage |-> Or(storage, Arr(<<>>))]), <<x>>)

MinUpidParts == 3

\* getTaskStatus without the test of the number of parts.
getTaskStatusUnparsed(up, node, upid) ==
  IF Nullish(upid)
  THEN Caught(TypeError("Cannot read properties of undefined (reading 'split')"), <<>>)
  ELSE StatusRead(up, <<"nodes", ToStr(node), "tasks", ToStr(upid), "status">>,
                  "No task status returned")

getTaskStatus(up, node, upid) ==
  IF Nullish(upid)
  THEN Caught(TypeError("Cannot read properties of undefined (reading 'split')"), <<>>)
  ELSE IF upid.t # "string"
  THEN Caught(TypeError("upid.split is not a function"), <<>>)
  ELSE IF Len(Split(upid.chars, <<":">>)) < MinUpidParts
  THEN Outcome(Obj([error |-> Str("Invalid UPID format")]), <<>>)
  ELSE StatusRead(up, <<"nodes", ToStr(node), "tasks", ToStr(upid), "status">>,
                  "No task status returned")

-----------------------------------------------------------------------------
(* ProxmoxManager: storage details and backups *)

\* a === b on undefined, null, strings, numbers and booleans.
StrictEq(a, b) == a.t = b.t /\ (a.t \in {"undefined", "null"} \/ a.v = b.v)

\* String.prototype.toLowerCase on the storage type names.
ToLowerCase(s) ==
  CASE s = "NFS" -> "nfs" [] s = "DIR" -> "dir" [] s = "LVM" -> "lvm" [] OTHER -> s

\* value.split(',') for a string value.
SplitList(x) ==
  IF "chars" \in DOMAIN x
  THEN LET parts == Split(x.chars, <<",">>) IN Arr([i \in 1..Len(parts) |-> Text(parts[i])])
  ELSE Arr(<<x>>)

PathTypes == {"dir", "lvm", "lvmthin", "zfs", "zfspool"}

StorageConfigResponses ==
  Failures \cup
  {Wrapped(Obj([type |-> Str("nfs"), content |-> Text(BackupIso), server |-> Str("10.0.0.2")])),
   Wrapped(Obj([type |-> Str("dir"), path |-> Str("/var/lib/vz")])),
   Wrapped(Null),
   Reply(Str(""))}

StorageStatusResponses ==
  Failures \cup
  {Wrapped(Obj([total |-> Num(100), used |-> Num(40), avail |-> Num(60), active |-> Num(1)])),
   Wrapped(Null),
   Reply(Str(""))}

\* The "Try to get current usage from a node" block: the requests it
\* issues and the status block it adds, if any.
UsageLookup(up, storage) ==
  LET x1 == Exchange(up, NodesRequest)
      nodes == apiCall(x1)
  IN IF Truthy(nodes) /\ nodes.t = "array" /\ Len(nodes.v) > 0
     THEN IF Nullish(nodes.v[1])
          THEN [block |-> <<>>, requests |-> <<x1>>]
          ELSE LET node == Get(nodes.v[1], "node")
                   x2 == Exchange(up, Request("GET",
                           <<"nodes", ToStr(node), "storage", ToStr(storage), "status">>, Null))
                   status == apiCall(x2)
               IN IF Truthy(status)
                  THEN [block |-> <<Obj([total |-> Or(Get(status, "total"), Num(0)),
                                         used |-> Or(Get(status, "used"), Num(0)),
                                         available |-> Or(Get(status, "avail"), Num(0)),
                                         active |-> Or(Get(status, "active"), Num(0))])>>,
                        requests |-> <<x1, x2>>]
                  ELSE [block |-> <<>>, requests |-> <<x1, x2>>]
     ELSE [block |-> <<>>, requests |-> <<x1>>]

getStorageDetails(up, storage) ==
  LET x == Exchange(up, Request("GET", <<"storage", ToStr(storage)>>, Null))
      config == apiCall(x)
  IN IF ~Truthy(config)
     THEN Outcome(Obj([error |-> Str("Storage " \o ToStr(storage) \o " not found")]), <<x>>)
     ELSE LET type == Get(config, "type")
              content == Get(config, "content")
          IN IF (Truthy(content) /\ content.t # "string") \/ (Truthy(type) /\ type.t # "string")
             THEN Caught(TypeError("config value is not a string"), <<x>>)
             ELSE LET storageType == ToLowerCase(Or(type, Str("")).v)
                      base == [storage |-> storage,
                               type |-> Or(type, Str("unknown")),
                               enabled |-> Or(Get(config, "enabled"), Num(0)),
                               shared |-> Or(Get(config, "shared"), Num(0)),
                               content |-> IF Truthy(content) THEN SplitList(content) ELSE Arr(<<>>),
                               nodes |-> Or(Get(config, "nodes"), Str("all"))]
                      specific ==
                        IF storageType = "nfs"
                        THEN [nfs |-> Obj([server |-> Or(Get(config, "server"), Str("N/A")),
                                           export |-> Or(Get(config, "export"), Str("N/A")),
                                           path |-> Or(Get(config, "path"), Str("N/A")),
                                           options |-> Or(Get(config, "options"), Str("N/A"))])]
                        ELSE IF storageType \in PathTypes
                        THEN [path |-> Or(Get(config, "path"), Str("N/A"))]
                        ELSE [k \in {} |-> Undefined]
                      usage == UsageLookup(up, storage)
                      status == IF usage.block = <<>> THEN [k \in {} |-> Undefined]
                                ELSE [status |-> usage.block[1]]
                  IN Outcome(Obj(status @@ specific @@ base), <<x>> \o usage.requests)

\* The entry getBackups pushes for a content item of type backup.
BackupEntry(item, node, storage) ==
  Obj([volid |-> Get(item, "volid"), vmid |-> Get(item, "vmid"),
       node |-> node, storage |-> storage,
       size |-> Or(Get(item, "size"), Num(0)), format |-> Get(item, "format"),
       ctime |-> Or(Get(item, "ctime"), Num(0)), notes |-> Or(Get(item, "notes"), Str(""))])

\* The backups among the items of a content listing (an array).
BackupsOf(content, node, storage) ==
  LET picked == SelectSeq(content.v, LAMBDA item : StrictEq(Get(item, "content"), Str("backup")))
  IN [i \in 1..Len(picked) |-> BackupEntry(picked[i], node, storage)]

\* The loop without the test of the storage's content types.
HoldsBackupsAlways(stor) == TRUE

\* stor.content && stor.content.includes('backup')
HoldsBackups(stor) ==
  LET content == Get(stor, "content")
  IN Truthy(content) /\ IndexOf(content.chars, <<"b", "a", "c", "k", "u", "p">>) > 0

RECURSIVE BackupPairs(_, _, _, _, _)
\* The nested loops of getBackups over nodes and storages, from the pair
\* (i, j) on: one content request per pair whose storage holds backups.
BackupPairs(up, nodes, storages, i, j) ==
  IF i > Len(nodes) THEN [items |-> <<>>, requests |-> <<>>]
  ELSE IF j > Len(storages) THEN BackupPairs(up, nodes, storages, i + 1, 1)
  ELSE LET rest == BackupPairs(up, nodes, storages, i, j + 1)
           nodeName == Get(nodes[i], "node")
           stor == storages[j]
       IN IF HoldsBackups(stor)
          THEN LET x == Exchange(up, Request("GET",
                          <<"nodes", ToStr(nodeName), "storage", ToStr(Get(stor, "storage")),
                            "content">>, Null))
                   content == apiCall(x)
                   mine == IF Truthy(content) /\ content.t = "array"
                           THEN BackupsOf(content, nodeName, Get(stor, "storage"))
                           ELSE <<>>
               IN [items |-> mine \o rest.items, requests |-> <<x>> \o rest.requests]
          ELSE rest

BackupsResult(items) == Obj([backups |-> Arr(items), count |-> Num(Len(items))])

getBackups(up, storage0, node0) ==
  LET storage == IF storage0.t = "undefined" THEN Null ELSE storage0
      node == IF node0.t = "undefined" THEN Null ELSE node0
  IN IF Truthy(storage) /\ Truthy(node)
     THEN LET x == Exchange(up, Request("GET",
                     <<"nodes", ToStr(node), "storage", ToStr(storage), "content">>, Null))
              content == apiCall(x)
          IN IF ~Truthy(content) THEN Outcome(BackupsResult(<<>>), <<x>>)
             ELSE IF content.t # "array"
             THEN Caught(TypeError("content is not iterable"), <<x>>)
             ELSE Outcome(BackupsResult(BackupsOf(content, node, storage)), <<x>>)
     ELSE LET x1 == Exchange(up, NodesRequest)
              nodes == apiCall(x1)
              x2 == Exchange(up, Request("GET", <<"storage">>, Null))
              storages == apiCall(x2)
          IN IF ~(Truthy(nodes) /\ Truthy(storages))
             THEN Outcome(BackupsResult(<<>>), <<x1, x2>>)
             ELSE IF nodes.t # "array"
             THEN Caught(TypeError("nodes is not iterable"), <<x1, x2>>)
             ELSE IF Len(nodes.v) > 0 /\ storages.t # "array"
             THEN Caught(TypeError("storages is not iterable"), <<x1, x2>>)
             ELSE LET loop == IF Len(nodes.v) = 0 THEN [items |-> <<>>, requests |-> <<>>]
                              ELSE BackupPairs(up, nodes.v, storages.v, 1, 1)
                  IN Outcome(BackupsResult(loop.items), <<x1, x2>> \o loop.requests)

-----------------------------------------------------------------------------
(* ProxmoxManager: cluster status *)

ClusterEntry(quorate) ==
  Obj([name |-> Str("lab"), version |-> Num(7), quorate |-> quorate])

ClusterStatusResponses ==
  Failures \cup
  {Wrapped(Arr(<<ClusterEntry(Num(1))>>)),
   Wrapped(Arr(<<ClusterEntry(Num(0))>>)),
   Wrapped(Arr(<<ClusterEntry(Bool(FALSE))>>)),
   Wrapped(Arr(<<Obj([name |-> Str("lab")])>>)),
   Wrapped(Arr(<<>>)),
   Wrapped(Null)}

NodeResource(n, status, used) ==
  Obj([type |-> Str("node"), node |-> Str(n), status |-> Str(status), maxcpu |-> Num(4),
       maxmem |-> Num(8), mem |-> Num(used), maxdisk |-> Num(20), disk |-> Num(used)])

NodeResourceResponses ==
  Failures \cup
  {Wrapped(Arr(<<NodeResource("pve1", "online", 3), NodeResource("pve2", "offline", 0)>>)),
   Wrapped(Arr(<<NodeResource("pve1", "online", 5), Obj([type |-> Str("storage")])>>)),
   Wrapped(Arr(<<>>)),
   Wrapped(Null)}

UnitResource(type, status) == Obj([type |-> Str(type), status |-> Str(status)])

UnitResourceResponses ==
  Failures \cup
  {Wrapped(Arr(<<UnitResource("qemu", "running"), UnitResource("qemu", "stopped"),
                 UnitResource("lxc", "running")>>)),
   Wrapped(Arr(<<UnitResource("lxc", "stopped"), UnitResource("storage", "running")>>)),
   Wrapped(Arr(<<>>)),
   Wrapped(Null)}

RECURSIVE SumOf(_, _)
\* total += entry.field || 0 over the entries.
SumOf(entries, field) ==
  IF entries = <<>> THEN 0
  ELSE Or(Get(Head(entries), field), Num(0)).v + SumOf(Tail(entries), field)

\* A test for the presence of the field, whatever its value.
HasFieldPresent(entry, field, value) == Has(entry, field)

HasField(entry, field, value) == StrictEq(Get(entry, field), Str(value))

CountWhere(entries, Test(_)) == Len(SelectSeq(entries, Test))

\* v[0]
First(x) ==
  IF x.t = "array" THEN (IF Len(x.v) > 0 THEN x.v[1] ELSE Undefined)
  ELSE IF x.t = "string" THEN (IF x.v = "" THEN Undefined ELSE Str("?"))
  ELSE Get(x, "0")

NodeDetail(node) ==
  Obj([name |-> Get(node, "node"),
       status |-> Or(Get(node, "status"), Str("unknown")),
       cpu_usage |-> Or(Get(node, "cpu"), Num(0)),
       memory |-> Or(Get(node, "mem"), Num(0)),
       max_memory |-> Or(Get(node, "maxmem"), Num(0)),
       disk |-> Or(Get(node, "disk"), Num(0)),
       max_disk |-> Or(Get(node, "maxdisk"), Num(0)),
       uptime |-> Or(Get(node, "uptime"), Num(0))])

getClusterStatus(up) ==
  LET x1 == Exchange(up, Request("GET", <<"cluster", "status">>, Null))
      clusterStatus == apiCall(x1)
      x2 == Exchange(up, RequestQ("GET", <<"cluster", "resources">>, "type=node", Null))
      resources == apiCall(x2)
  IN IF Truthy(resources) /\ ~Iterable(resources)
     THEN Caught(TypeError("resources is not iterable"), <<x1, x2>>)
     ELSE
     LET nodes == IF Truthy(resources)
                  THEN SelectSeq(resources.v, LAMBDA n : HasField(n, "type", "node"))
                  ELSE <<>>
         totalMemory == SumOf(nodes, "maxmem")
         totalMemoryUsed == SumOf(nodes, "mem")
         totalDisk == SumOf(nodes, "maxdisk")
         totalDiskUsed == SumOf(nodes, "disk")
         x3 == Exchange(up, RequestQ("GET", <<"cluster", "resources">>, "type=vm", Null))
         vms == apiCall(x3)
     IN IF Truthy(vms) /\ ~Iterable(vms)
        THEN Caught(TypeError("vms is not iterable"), <<x1, x2, x3>>)
        ELSE
        LET units == IF Truthy(vms) THEN vms.v ELSE <<>>
            vmCount == CountWhere(units, LAMBDA u : HasField(u, "type", "qemu"))
            ctCount == CountWhere(units, LAMBDA u : HasField(u, "type", "lxc"))
            runningVms == CountWhere(units, LAMBDA u :
                            HasField(u, "type", "qemu") /\ HasField(u, "status", "running"))
            runningCts == CountWhere(units, LAMBDA u :
                            HasField(u, "type", "lxc") /\ HasField(u, "status", "running"))
            head == IF Truthy(clusterStatus) THEN First(clusterStatus) ELSE Undefined
            known == Truthy(clusterStatus) /\ Truthy(head)
        IN Outcome(Obj([
             name |-> IF known THEN Or(Get(head, "name"), Str("Proxmox Cluster"))
                      ELSE Str("Proxmox Cluster"),
             version |-> IF known THEN Get(head, "version") ELSE Str("unknown"),
             nodes |-> Obj([total |-> Num(Len(nodes)),
                            online |-> Num(CountWhere(nodes, LAMBDA n : HasField(n, "status", "online"))),
                            details |-> Arr([i \in 1..Len(nodes) |-> NodeDetail(nodes[i])])]),
             resources |-> Obj([
               cpu |-> Obj([total_cores |-> Num(SumOf(nodes, "maxcpu"))]),
               memory |-> Obj([total |-> Num(totalMemory), used |-> Num(totalMemoryUsed),
                               free |-> Num(totalMemory - totalMemoryUsed)]),
               storage |-> Obj([total |-> Num(totalDisk), used |-> Num(totalDiskUsed),
                                free |-> Num(totalDisk - totalDiskUsed)])]),
             virtual_machines |-> Obj([total |-> Num(vmCount), running |-> Num(runningVms),
                                       stopped |-> Num(vmCount - runningVms)]),
             containers |-> Obj([total |-> Num(ctCount), running |-> Num(runningCts),
                                 stopped |-> Num(ctCount - runningCts)]),
             quorate |-> IF known THEN Bool(~StrictEq(Get(head, "quorate"), Bool(FALSE)))
                         ELSE Bool(TRUE)]),
           <<x1, x2, x3>>)

-----------------------------------------------------------------------------
(* ProxmoxManager: users, groups, roles and the cluster log *)

\* One GET, then value.map(entry => ...): an empty list when nothing came
\* back, a TypeError (caught) when the value is not an array.
MappedList(up, rq, key, what, Entry(_)) ==
  LET x == Exchange(up, rq)
      listed == apiCall(x)
  IN IF ~Truthy(listed)
     THEN Outcome(Obj((key :> Arr(<<>>)) @@ [count |-> Num(0)]), <<x>>)
     ELSE IF listed.t # "array"
     THEN Caught(TypeError(what \o ".map is not a function"), <<x>>)
     ELSE Outcome(Obj((key :> Arr([i \in 1..Len(listed.v) |-> Entry(listed.v[i])]))
                      @@ [count |-> Num(Len(listed.v))]), <<x>>)

\* field ? field.split(',') : []
SplitOrEmpty(x) == IF Truthy(x) THEN SplitList(x) ELSE Arr(<<>>)

UserEntry(user) ==
  Obj([userid |-> Get(user, "userid"),
       enable |-> IF Get(user, "enable").t # "undefined" THEN Get(user, "enable") ELSE Num(1),
       expire |-> Or(Get(user, "expire"), Num(0)),
       firstname |-> Or(Get(user, "firstname"), Str("")),
       lastname |-> Or(Get(user, "lastname"), Str("")),
       email |-> Or(Get(user, "email"), Str("")),
       comment |-> Or(Get(user, "comment"), Str("")),
       groups |-> SplitOrEmpty(Get(user, "groups")),
       tokens |-> Or(Get(user, "tokens"), Arr(<<>>))])

getUsers(up) ==
  MappedList(up, Request("GET", <<"access", "users">>, Null), "users", "users", UserEntry)

GroupEntry(group) ==
  Obj([groupid |-> Get(group, "groupid"),
       comment |-> Or(Get(group, "comment"), Str("")),
       users |-> SplitOrEmpty(Get(group, "users"))])

getGroups(up) ==
  MappedList(up, Request("GET", <<"access", "groups">>, Null), "groups", "groups", GroupEntry)

RoleEntry(role) ==
  Obj([roleid |-> Get(role, "roleid"),
       privs |-> SplitOrEmpty(Get(role, "privs")),
       special |-> Or(Get(role, "special"), Num(0))])

getRoles(up) ==
  MappedList(up, Request("GET", <<"access", "roles">>, Null), "roles", "roles", RoleEntry)

LogEntry(entry) ==
  Obj([time |-> Or(Get(entry, "time"), Num(0)),
       node |-> Or(Get(entry, "node"), Str("cluster")),
       user |-> Or(Get(entry, "user"), Str("system")),
       message |-> Or(Get(entry, "msg"), Str("")),
       priority |-> Or(Get(entry, "pri"), Num(6)),
       tag |-> Or(Get(entry, "tag"), Str("system"))])

DefaultMaxLines == 50

getClusterLog(up, maxLines0) ==
  LET maxLines == IF maxLines0.t = "undefined" THEN Num(DefaultMaxLines) ELSE maxLines0
  IN MappedList(up, RequestQ("GET", <<"cluster", "log">>, "max=" \o ToStr(maxLines), Null),
                "logs", "logEntries", LogEntry)

\* What the access and log listings may answer.
DirectoryResponses ==
  Failures \cup
  {Wrapped(Arr(<<Obj([userid |-> Str("root@pam"), groupid |-> Str("admin"),
                      roleid |-> Str("PVEAdmin"), msg |-> Str("started"),
                      groups |-> Text(<<"a", ",", "b">>)])>>)),
   Wrapped(Arr(<<>>)),
   Wrapped(Null),
   Reply(Str(""))}

-----------------------------------------------------------------------------
(* ProxmoxManager: network and firewall *)

\* The keys for (const key in config) visits that start with "net".
NetKeys == <<"net0", "net1">>

RECURSIVE ParseParts(_, _)
\* for (const part of parts) if (part.includes('=')) netInterface[k] = v
ParseParts(parts, iface) ==
  IF parts = <<>> THEN iface
  ELSE IF Includes(Head(parts), "=")
       THEN LET kv == Split(Head(parts), <<"=">>)
            IN ParseParts(Tail(parts), (Join(kv[1]) :> Text(kv[2])) @@ iface)
       ELSE ParseParts(Tail(parts), iface)

NetInterface(key, netConfig) ==
  LET base == [name |-> Str(key), config |-> netConfig]
  IN IF netConfig.t = "string" /\ "chars" \in DOMAIN netConfig
     THEN Obj(ParseParts(Split(netConfig.chars, <<",">>), base))
     ELSE Obj(base)

Interfaces(config) ==
  LET keys == SelectSeq(NetKeys, LAMBDA k : Has(config, k))
  IN [i \in 1..Len(keys) |-> NetInterface(keys[i], config.v[keys[i]])]

NetConfigText == <<"e", "=", "A", ",", "b", "=", "v">>

UnitConfigResponses ==
  Failures \cup
  {Wrapped(Obj([net0 |-> Text(NetConfigText), cores |-> Num(2)])),
   Wrapped(Obj([cores |-> Num(2)])),
   Wrapped(Null),
   Reply(Str(""))}

AgentResponses ==
  Failures \cup
  {Wrapped(Obj([result |-> Arr(<<Obj([name |-> Str("eth0")])>>)])),
   Wrapped(Obj([result |-> Null])),
   Wrapped(Null)}

getVMNetwork(up, node, vmid, vmType0) ==
  LET vmType == IF vmType0.t = "undefined" THEN Str("qemu") ELSE vmType0
      qemu == StrictEq(vmType, Str("qemu"))
      x1 == Exchange(up, Request("GET",
              <<"nodes", ToStr(node), IF qemu THEN "qemu" ELSE "lxc", ToStr(vmid), "config">>,
              Null))
      config == apiCall(x1)
  IN IF ~Truthy(config)
     THEN Outcome(Obj([error |-> Str("No config data returned")]), <<x1>>)
     ELSE LET info == [vmid |-> vmid, node |-> node, type |-> vmType,
                       interfaces |-> Arr(Interfaces(config))]
          IN IF qemu
             THEN LET x2 == Exchange(up, Request("GET",
                             <<"nodes", ToStr(node), "qemu", ToStr(vmid), "agent",
                               "network-get-interfaces">>, Null))
                      agentInfo == apiCall(x2)
                  IN IF Truthy(agentInfo) /\ Truthy(Get(agentInfo, "result"))
                     THEN Outcome(Obj([agent_network |-> Get(agentInfo, "result")] @@ info),
                                  <<x1, x2>>)
                     ELSE Outcome(Obj(info), <<x1, x2>>)
             ELSE Outcome(Obj(info), <<x1>>)

RuleEntry(rule) ==
  Obj([pos |-> Get(rule, "pos"), type |-> Get(rule, "type"), action |-> Get(rule, "action"),
       enable |-> IF Get(rule, "enable").t # "undefined" THEN Get(rule, "enable") ELSE Num(1),
       source |-> Or(Get(rule, "source"), Str("any")),
       dest |-> Or(Get(rule, "dest"), Str("any")),
       proto |-> Or(Get(rule, "proto"), Str("any")),
       dport |-> Or(Get(rule, "dport"), Str("")),
       sport |-> Or(Get(rule, "sport"), Str("")),
       comment |-> Or(Get(rule, "comment"), Str(""))])

FirewallOptionResponses ==
  Failures \cup
  {Wrapped(Obj([enable |-> Num(1), policy_in |-> Str("DROP")])),
   Wrapped(Null),
   Reply(Str(""))}

FirewallRuleResponses ==
  Failures \cup
  {Wrapped(Arr(<<Obj([pos |-> Num(0), type |-> Str("in"), action |-> Str("ACCEPT")])>>)),
   Wrapped(Arr(<<>>)),
   Wrapped(Null),
   Reply(Str(""))}

getFirewallStatus(up, node, vmid0) ==
  LET vmid == IF vmid0.t = "undefined" THEN Null ELSE vmid0
      scope == IF Truthy(vmid) THEN <<"nodes", ToStr(node), "qemu", ToStr(vmid), "firewall">>
               ELSE <<"nodes", ToStr(node), "firewall">>
      x1 == Exchange(up, Request("GET", scope \o <<"options">>, Null))
      options == Or(apiCall(x1), EmptyObj)
      x2 == Exchange(up, Request("GET", scope \o <<"rules">>, Null))
      rules == Or(apiCall(x2), Arr(<<>>))
  IN IF rules.t # "array"
     THEN Caught(TypeError("rules is not iterable"), <<x1, x2>>)
     ELSE Outcome(Obj([target |-> Str(IF Truthy(vmid) THEN "VM " \o ToStr(vmid)
                                      ELSE "Node " \o ToStr(node)),
                       enabled |-> Or(Get(options, "enable"), Num(0)),
                       policy_in |-> Or(Get(options, "policy_in"), Str("ACCEPT")),
                       policy_out |-> Or(Get(options, "policy_out"), Str("ACCEPT")),
                       log_level |-> Or(Get(options, "log_level_in"), Str("nolog")),
                       rules |-> Arr([i \in 1..Len(rules.v) |-> RuleEntry(rules.v[i])])]),
                  <<x1, x2>>)

-----------------------------------------------------------------------------
(* ProxmoxManager: recent tasks and templates *)

DefaultLimit == 20

\* The entry getRecentTasks pushes for a task; the single-node branch also
\* copies pstart.
TaskEntry(task, single) ==
  LET common == [upid |-> Get(task, "upid"), node |-> Get(task, "node"),
                 pid |-> Get(task, "pid"), type |-> Get(task, "type"),
                 status |-> Or(Get(task, "status"), Str("running")),
                 user |-> Get(task, "user"),
                 starttime |-> Or(Get(task, "starttime"), Num(0)),
                 endtime |-> Or(Get(task, "endtime"), Num(0))]
  IN IF single THEN Obj([pstart |-> Get(task, "pstart")] @@ common) ELSE Obj(common)

TaskEntries(listed, single) ==
  [i \in 1..Len(listed.v) |-> TaskEntry(listed.v[i], single)]

RECURSIVE InsertTask(_, _)
\* Insert a task behind the tasks that start no earlier: the sort is stable.
InsertTask(task, sorted) ==
  IF sorted = <<>> THEN <<task>>
  ELSE IF Get(task, "starttime").v > Get(Head(sorted), "starttime").v
       THEN <<task>> \o sorted
       ELSE <<Head(sorted)>> \o InsertTask(task, Tail(sorted))

RECURSIVE SortTasks(_)
\* tasks.sort((a, b) => b.starttime - a.starttime)
SortTasks(tasks) ==
  IF tasks = <<>> THEN <<>>
  ELSE InsertTask(Last(tasks), SortTasks(SubSeq(tasks, 1, Len(tasks) - 1)))

Min(a, b) == IF a < b THEN a ELSE b

\* The result with the collection cut to limit entries before it is sorted.
TasksResultCutFirst(tasks, limit) ==
  LET n == Min(Len(tasks), limit)
  IN Obj([tasks |-> Arr(SortTasks(SubSeq(tasks, 1, n))), count |-> Num(n)])

\* { tasks: tasks.slice(0, limit), count: Math.min(tasks.length, limit) }
\* for a limit that is not negative.
TasksResult(tasks, limit) ==
  LET sorted == SortTasks(tasks)
      n == Min(Len(sorted), limit)
  IN Obj([tasks |-> Arr(SubSeq(sorted, 1, n)), count |-> Num(n)])

RECURSIVE TasksPerNode(_, _, _, _)
TasksPerNode(up, nodes, nodeLimit, i) ==
  IF i > Len(nodes) THEN [items |-> <<>>, requests |-> <<>>]
  ELSE LET x == Exchange(up, RequestQ("GET", <<"nodes", ToStr(Get(nodes[i], "node")), "tasks">>,
                               "limit=" \o ToString(nodeLimit), Null))
           nodeTasks == apiCall(x)
           mine == IF Truthy(nodeTasks) /\ nodeTasks.t = "array"
                   THEN TaskEntries(nodeTasks, FALSE) ELSE <<>>
           rest == TasksPerNode(up, nodes, nodeLimit, i + 1)
       IN [items |-> mine \o rest.items, requests |-> <<x>> \o rest.requests]

\* Math.floor(limit / nodes.length) alone.
NodeLimitFloor(limit, count) == limit \div count

\* Math.floor(limit / nodes.length) || limit, for at least one node.
NodeLimit(limit, count) == IF limit \div count # 0 THEN limit \div count ELSE limit

getRecentTasks(up, node0, limit0) ==
  LET node == IF node0.t = "undefined" THEN Null ELSE node0
      limit == IF limit0.t = "undefined" THEN DefaultLimit ELSE limit0.v
  IN IF Truthy(node)
     THEN LET x == Exchange(up, RequestQ("GET", <<"nodes", ToStr(node), "tasks">>,
                                  "limit=" \o ToString(limit), Null))
              nodeTasks == apiCall(x)
          IN IF ~Truthy(nodeTasks) THEN Outcome(TasksResult(<<>>, limit), <<x>>)
             ELSE IF nodeTasks.t # "array"
             THEN Caught(TypeError("nodeTasks is not iterable"), <<x>>)
             ELSE Outcome(TasksResult(TaskEntries(nodeTasks, TRUE), limit), <<x>>)
     ELSE LET x == Exchange(up, NodesRequest)
              nodes == apiCall(x)
          IN IF ~Truthy(nodes) THEN Outcome(TasksResult(<<>>, limit), <<x>>)
             ELSE IF nodes.t # "array"
             THEN Caught(TypeError("nodes is not iterable"), <<x>>)
             ELSE IF Len(nodes.v) = 0 THEN Outcome(TasksResult(<<>>, limit), <<x>>)
             ELSE LET loop == TasksPerNode(up, nodes.v, NodeLimit(limit, Len(nodes.v)), 1)
                  IN Outcome(TasksResult(loop.items, limit), <<x>> \o loop.requests)

TemplateEntry(unit, nodeName, kind) ==
  Obj([vmid |-> Get(unit, "vmid"), name |-> Or(Get(unit, "name"), Str("unnamed")),
       node |-> nodeName, type |-> Str(kind),
       disk_size |-> Or(Get(unit, "maxdisk"), Num(0)),
       memory |-> Or(Get(unit, "maxmem"), Num(0)),
       cpus |-> Or(Get(unit, "cpus"), Num(1))])

\* One "Check ... for templates" block: the listing of one kind on one node.
TemplatesOf(up, nodeName, kind) ==
  LET x == Exchange(up, Request("GET", <<"nodes", ToStr(nodeName), kind>>, Null))
      listed == apiCall(x)
      picked == IF Truthy(listed) /\ listed.t = "array"
                THEN SelectSeq(listed.v, LAMBDA u : StrictEq(Get(u, "template"), Num(1)))
                ELSE <<>>
  IN [items |-> [i \in 1..Len(picked) |-> TemplateEntry(picked[i], nodeName, kind)],
      requests |-> <<x>>]

RECURSIVE TemplatesPerNode(_, _, _)
TemplatesPerNode(up, nodes, i) ==
  IF i > Len(nodes) THEN [items |-> <<>>, requests |-> <<>>]
  ELSE LET nodeName == Get(nodes[i], "node")
           vms == TemplatesOf(up, nodeName, "qemu")
           containers == TemplatesOf(up, nodeName, "lxc")
           rest == TemplatesPerNode(up, nodes, i + 1)
       IN [items |-> vms.items \o containers.items \o rest.items,
           requests |-> vms.requests \o containers.requests \o rest.requests]

TemplatesResult(items) == Obj([templates |-> Arr(items), count |-> Num(Len(items))])

\* listTemplates without the try/catch around each listing: the TypeError of
\* iterating a failed listing reaches the outer catch.
listTemplatesAborting(up) ==
  LET x == Exchange(up, NodesRequest)
      nodes == apiCall(x)
  IN IF ~Truthy(nodes) THEN Outcome(TemplatesResult(<<>>), <<x>>)
     ELSE IF nodes.t # "array"
     THEN Caught(TypeError("nodes is not iterable"), <<x>>)
     ELSE LET loop == TemplatesPerNode(up, nodes.v, 1)
          IN IF \E i \in 1..Len(loop.requests) : ~loop.requests[i].response.ok
             THEN Caught(TypeError("vms is not iterable"), <<x>> \o loop.requests)
             ELSE Outcome(TemplatesResult(loop.items), <<x>> \o loop.requests)

listTemplates(up) ==
  LET x == Exchange(up, NodesRequest)
      nodes == apiCall(x)
  IN IF ~Truthy(nodes) THEN Outcome(TemplatesResult(<<>>), <<x>>)
     ELSE IF nodes.t # "array"
     THEN Caught(TypeError("nodes is not iterable"), <<x>>)
     ELSE LET loop == TemplatesPerNode(up, nodes.v, 1)
          IN Outcome(TemplatesResult(loop.items), <<x>> \o loop.requests)

-----------------------------------------------------------------------------
(* ProxmoxManager.getHelp *)

HelpCategories ==
  <<
    [category |-> "Node Management",
     names |-> <<"get_nodes", "get_node_status">>],
    [category |-> "Virtual Machine Management",
     names |-> <<"get_vms", "get_vm_status", "start_vm", "stop_vm", "reboot_vm", "execute_vm_command", "create_vm_snapshot", "list_vm_snapshots">>],
    [category |-> "Container Management",
     names |-> <<"get_containers", "get_container_status", "start_container", "stop_container", "reboot_container", "execute_container_command", "create_container_snapshot", "list_container_snapshots">>],
    [category |-> "Storage & Backup",
     names |-> <<"get_storage", "get_storage_details", "get_backups", "list_templates">>],
    [category |-> "Cluster & Monitoring",
     names |-> <<"get_cluster_status", "get_recent_tasks", "get_task_status", "get_cluster_log">>],
    [category |-> "Network & Security",
     names |-> <<"get_vm_network", "get_firewall_status">>],
    [category |-> "User & Access Control",
     names |-> <<"get_users", "get_groups", "get_roles">>],
    [category |-> "Help & Documentation",
     names |-> <<"get_help">>]
  >>

HelpVersion == "0.4.1"

getHelp ==
  Outcome(Obj([title |-> Str("ProxmoxEmCP Server - Available Tools"),
               categories |-> Obj([c \in {HelpCategories[i].category : i \in 1..Len(HelpCategories)} |->
                   LET entry == CHOOSE e \in {HelpCategories[i] : i \in 1..Len(HelpCategories)} :
                                  e.category = c
                   IN Arr([j \in 1..Len(entry.names) |-> Obj([name |-> Str(entry.names[j])])])]),
               version |-> Str(HelpVersion),
               license |-> Str("MIT")]),
          <<>>)

-----------------------------------------------------------------------------
(* The tool-call handler *)

RECURSIVE Serialize(_)
\* JSON.stringify: the document the text spells.  A key whose value is
\* undefined is left out, an undefined array element becomes null.
Serialize(x) ==
  CASE x.t = "object" ->
         Obj([k \in {q \in DOMAIN x.v : x.v[q].t # "undefined"} |-> Serialize(x.v[k])])
    [] x.t = "array" ->
         Arr([i \in 1..Len(x.v) |->
                IF x.v[i].t = "undefined" THEN Null ELSE Serialize(x.v[i])])
    [] x.t = "string" -> Str(x.v)
    [] OTHER -> x

\* The value the handler returns to the SDK: one text item holding the JSON
\* text (kept as the document it spells), and the isError flag (FALSE when
\* the key is not set).
Envelope(doc, isError) ==
  [kind |-> "result", content |-> <<[type |-> "text", text |-> doc]>>, isError |-> isError]

DegradedDetails == "Please check environment variables and server configuration"

\* The degraded answer with the captured reason left out.
DegradedAnswerGeneric(reason) ==
  Envelope(Serialize(Obj([
             error |-> Str("Server initialization failed: Proxmox connection not initialized"),
             details |-> Str(DegradedDetails)])),
           TRUE)

\* if (!proxmox) return { ... isError: true }
DegradedAnswer(reason) ==
  Envelope(Serialize(Obj([
             error |-> Str("Server initialization failed: " \o
                           Or(reason, Str("Proxmox connection not initialized")).v),
             details |-> Str(DegradedDetails)])),
           TRUE)

\* The first property of args a case of the switch reads, "" when it reads none.
FirstRead(name) ==
  CASE name \in {"get_nodes", "get_vms", "get_storage", "get_cluster_status", "get_containers",
                 "get_users", "get_groups", "get_roles", "list_templates", "get_help"} -> ""
    [] name = "get_storage_details" -> "storage"
    [] name = "get_backups" -> "storage"
    [] name = "get_cluster_log" -> "max_lines"
    [] name \in ToolNames -> "node"
    [] OTHER -> ""

\* A switch without its default case: result stays null.
UnknownToolIgnored(name) == Outcome(Null, <<>>)

\* default: result = { error: `Unknown tool: ${name}` }; no method is called.
UnknownTool(name) == Outcome(Obj([error |-> Str("Unknown tool: " \o name)]), <<>>)

\* switch (name) { ... }: the manager method each case awaits.
Route(name, args, up) ==
  LET node == Get(args, "node")
      vmid == Get(args, "vmid")
  IN CASE name = "get_nodes" -> getNodes(up)
       [] name = "get_node_status" -> getNodeStatus(up, node)
       [] name = "get_vms" -> getVMs(up)
       [] name = "get_vm_status" -> getVMStatus(up, node, vmid)
       [] name = "start_vm" -> startVM(up, node, vmid)
       [] name = "stop_vm" -> stopVM(up, node, vmid)
       [] name = "reboot_vm" -> rebootVM(up, node, vmid)
       [] name = "execute_vm_command" -> executeVMCommand(up, node, vmid, Get(args, "command"))
       [] name = "create_vm_snapshot" ->
            createVMSnapshot(up, node, vmid, Get(args, "name"), Get(args, "description"))
       [] name = "list_vm_snapshots" -> listVMSnapshots(up, node, vmid)
       [] name = "get_storage" -> getStorage(up)
       [] name = "get_cluster_status" -> getClusterStatus(up)
       [] name = "get_task_status" -> getTaskStatus(up, node, Get(args, "upid"))
       [] name = "get_containers" -> getContainers(up)
       [] name = "get_container_status" -> getContainerStatus(up, node, vmid)
       [] name = "start_container" -> startContainer(up, node, vmid)
       [] name = "stop_container" -> stopContainer(up, node, vmid)
       [] name = "reboot_container" -> rebootContainer(up, node, vmid)
       [] name = "execute_container_command" ->
            executeContainerCommand(up, node, vmid, Get(args, "command"))
       [] name = "create_container_snapshot" ->
            createContainerSnapshot(up, node, vmid, Get(args, "name"), Get(args, "description"))
       [] name = "list_container_snapshots" -> listContainerSnapshots(up, node, vmid)
       [] name = "get_storage_details" -> getStorageDetails(up, Get(args, "storage"))
       [] name = "get_backups" -> getBackups(up, Get(args, "storage"), node)
       [] name = "get_users" -> getUsers(up)
       [] name = "get_groups" -> getGroups(up)
       [] name = "get_roles" -> getRoles(up)
       [] name = "get_vm_network" -> getVMNetwork(up, node, vmid, Get(args, "vm_type"))
       [] name = "get_firewall_status" -> getFirewallStatus(up, node, vmid)
       [] name = "get_recent_tasks" -> getRecentTasks(up, node, Get(args, "limit"))
       [] name = "get_cluster_log" -> getClusterLog(up, Get(args, "max_lines"))
       [] name = "list_templates" -> listTemplates(up)
       [] name = "get_help" -> getHelp
       [] OTHER -> UnknownTool(name)

\* A return statement that flags a result carrying an error key.
AnswerFlagged(o) ==
  [response |-> Envelope(Serialize(o.result), Has(o.result, "error")),
   requests |-> o.requests]

\* The return statement that closes the try block: the awaited result is
\* serialised into the single text item of the envelope.
Answer(o) ==
  [response |-> Envelope(Serialize(o.result), FALSE), requests |-> o.requests]

\* The handler without its try/catch: the TypeError of reading a property of
\* an absent arguments object leaves the handler.
CallToolHandlerUncaught(manager, reason, name, args, up) ==
  IF manager = Null
  THEN [response |-> DegradedAnswer(reason), requests |-> <<>>]
  ELSE IF Nullish(args) /\ FirstRead(name) # ""
  THEN [response |-> [kind |-> "exception",
                      message |-> "Cannot read properties of undefined (reading '"
                                  \o FirstRead(name) \o "')"],
        requests |-> <<>>]
  ELSE CHOOSE r \in {Answer(result) : result \in {Route(name, args, up)}} : TRUE

\* The CallToolRequestSchema handler: the degraded guard, then the switch
\* inside try/catch.  Reading a property of an absent arguments object
\* throws inside the try and is answered by the catch.  The awaited result
\* is bound once (const result = ...) before it is serialised.
CallToolHandler(manager, reason, name, args, up) ==
  IF manager = Null
  THEN [response |-> DegradedAnswer(reason), requests |-> <<>>]
  ELSE IF Nullish(args) /\ FirstRead(name) # ""
  THEN [response |-> Envelope(Serialize(Obj([error |->
                        Str("Cannot read properties of undefined (reading '"
                            \o FirstRead(name) \o "')")])), TRUE),
        requests |-> <<>>]
  ELSE CHOOSE r \in {Answer(result) : result \in {Route(name, args, up)}} : TRUE

\* A listing that was not extended when the tools of 0.4.0 were added.
ListToolsHandlerLegacy == [kind |-> "tools", tools |-> SubSeq(tools, 1, 13)]

\* The ListToolsRequestSchema handler: return { tools }.
ListToolsHandler == [kind |-> "tools", tools |-> tools]

-----------------------------------------------------------------------------
(* The dispatcher of v0.3.4 *)

\* The catalogue of v0.3.4.
ToolNames034 ==
  {"get_nodes", "get_node_status", "get_vms", "get_vm_status", "start_vm", "stop_vm",
   "reboot_vm", "execute_vm_command", "create_vm_snapshot", "list_vm_snapshots",
   "get_storage", "get_cluster_status", "get_task_status"}

\* v0.3.4: const status = await this.apiCall('GET', '/cluster/status');
\* return { status: status || [] }
getClusterStatus034(up) ==
  LET x == Exchange(up, Request("GET", <<"cluster", "status">>, Null))
  IN Outcome(Obj([status |-> Or(apiCall(x), Arr(<<>>))]), <<x>>)

\* switch (name) of v0.3.4: thirteen cases and the default.  The methods it
\* awaits, but for getClusterStatus, have the text they have in v0.4.2.
Route034(name, args, up) ==
  LET node == Get(args, "node")
      vmid == Get(args, "vmid")
  IN CASE name = "get_nodes" -> getNodes(up)
       [] name = "get_node_status" -> getNodeStatus(up, node)
       [] name = "get_vms" -> getVMs(up)
       [] name = "get_vm_status" -> getVMStatus(up, node, vmid)
       [] name = "start_vm" -> startVM(up, node, vmid)
       [] name = "stop_vm" -> stopVM(up, node, vmid)
       [] name = "reboot_vm" -> rebootVM(up, node, vmid)
       [] name = "execute_vm_command" -> executeVMCommand(up, node, vmid, Get(args, "command"))
       [] name = "create_vm_snapshot" ->
            createVMSnapshot(up, node, vmid, Get(args, "name"), Get(args, "description"))
       [] name = "list_vm_snapshots" -> listVMSnapshots(up, node, vmid)
       [] name = "get_storage" -> getStorage(up)
       [] name = "get_cluster_status" -> getClusterStatus034(up)
       [] name = "get_task_status" -> getTaskStatus(up, node, Get(args, "upid"))
       [] OTHER -> Outcome(Obj([error |-> Str("Unknown tool: " \o name)]), <<>>)

\* The CallToolRequestSchema handler of v0.3.4: the degraded guard, the
\* switch inside try/catch, the result serialised without an isError key.
CallToolHandler034(manager, reason, name, args, up) ==
  LET reads == name \in ToolNames034 \ {"get_nodes", "get_vms", "get_storage", "get_cluster_status"}
  IN IF manager = Null
     THEN [response |->
             Envelope(Serialize(Obj([
                 error |-> Str("Server initialization failed: " \o
                               Or(reason, Str("Proxmox connection not initialized")).v),
                 details |-> Str("Please check environment variables and server configuration")])),
               TRUE),
           requests |-> <<>>]
     ELSE IF Nullish(args) /\ reads
     THEN [response |-> Envelope(Serialize(Obj([error |->
                           Str("Cannot read properties of undefined (reading 'node')")])), TRUE),
           requests |-> <<>>]
     ELSE CHOOSE r \in {[response |-> Envelope(Serialize(o.result), FALSE),
                         requests |-> o.requests] : o \in {Route034(name, args, up)}} : TRUE

-----------------------------------------------------------------------------
(* The calls a client may send *)

UnknownNames == {"delete_vm", "get_node"}

CallNames == ToolNames \cup UnknownNames

GoodUpid == Text(<<"U", ":", "p", ":", "1">>)

ShortUpid == Text(<<"U", ":", "p">>)

\* The well-typed values a client may give to an argument.
Values(field) ==
  CASE field = "node" -> {Str("pve1")}
    [] field = "vmid" -> {Num(100)}
    [] field = "command" -> {Str("uptime")}
    [] field = "name" -> {Str("snap1")}
    [] field = "description" -> {Str("before upgrade"), Str("")}
    [] field = "upid" -> {GoodUpid, ShortUpid}
    [] field = "storage" -> {Str("local")}
    [] field = "vm_type" -> {Str("qemu"), Str("lxc")}
    [] field = "limit" -> {Num(l) : l \in 0..MaxLimit}
    [] field = "max_lines" -> {Num(10)}

\* A value of the wrong primitive type for a property of this type.
WrongValue(type) == IF type = "string" THEN Num(7) ELSE Str("abc")

\* The argument objects over the keys ks with well-typed values.
WellTyped(ks) == {Obj(f) : f \in {g \in [ks -> UNION {Values(k) : k \in ks}] :
                                    \A k \in ks : g[k] \in Values(k)}}

\* Does the arguments value satisfy the inputSchema of the tool?
Conforms(sch, args) ==
  /\ args.t = "object"
  /\ sch.required \subseteq DOMAIN args.v
  /\ \A k \in DOMAIN args.v \cap DOMAIN sch.properties :
       args.v[k].t = (IF sch.properties[k] = "string" THEN "string" ELSE "number")

\* What a client may send as the arguments of a call: nothing at all, the
\* well-typed objects with any of the optional properties, and the objects
\* with one required property missing or of the wrong type.
ArgsFor(name) ==
  IF name \notin ToolNames THEN {Undefined, EmptyObj}
  ELSE LET sch == Schema(name)
           optional == DOMAIN sch.properties \ sch.required
           valid == UNION {WellTyped(sch.required \cup ks) : ks \in SUBSET optional}
           missing == UNION {WellTyped(sch.required \ {k}) : k \in sch.required}
           wrong == {Obj([a.v EXCEPT ![k] = WrongValue(sch.properties[k])]) :
                       a \in WellTyped(sch.required), k \in sch.required}
       IN {Undefined} \cup valid \cup missing \cup wrong

-----------------------------------------------------------------------------
(* The upstream behaviours a call may meet *)

ListingMaps == [NodeNames -> ListingResponses]

\* For the calls that list both kinds on every node.
TemplateListingMaps ==
  [NodeNames -> {Fail("Request failed with status code 500"),
                 Wrapped(Arr([i \in 1..MaxUnits |-> Unit(i)])),
                 Wrapped(Null)}]

ContentMaps ==
  {[n \in NodeNames |-> [st \in StorageNames |->
      IF <<n, st>> \in failing THEN Fail("Request failed with status code 500")
      ELSE Wrapped(Arr(<<ContentItem("backup"), ContentItem("iso")>>))]] :
   failing \in SUBSET (NodeNames \X StorageNames)}

\* The upstream behaviours that differ in something the call can observe.
UpstreamsFor(name) ==
  LET D == DefaultUpstream
  IN CASE name = "get_nodes" -> {[D EXCEPT !.nodes = n] : n \in NodesResponses}
       [] name = "get_vms" ->
            {[D EXCEPT !.nodes = n, !.qemu = q] : n \in NodesResponses, q \in ListingMaps}
       [] name = "get_containers" ->
            {[D EXCEPT !.nodes = n, !.lxc = q] : n \in NodesResponses, q \in ListingMaps}
       [] name = "list_templates" ->
            {[D EXCEPT !.nodes = n, !.qemu = q, !.lxc = c] :
               n \in NodesResponses, q \in TemplateListingMaps, c \in TemplateListingMaps}
       [] name = "get_storage" -> {[D EXCEPT !.storage = r] : r \in StorageResponses}
       [] name = "get_cluster_status" ->
            {[D EXCEPT !.target = a, !.second = b, !.third = c] :
               a \in ClusterStatusResponses, b \in NodeResourceResponses,
               c \in UnitResourceResponses}
       [] name = "get_storage_details" ->
            {[D EXCEPT !.target = a, !.nodes = n, !.second = b] :
               a \in StorageConfigResponses, n \in NodesResponses,
               b \in StorageStatusResponses}
       [] name = "get_backups" ->
            {[D EXCEPT !.nodes = n, !.storage = r, !.content = c] :
               n \in NodesResponses, r \in StorageResponses, c \in ContentMaps}
       [] name \in {"get_users", "get_groups", "get_roles", "get_cluster_log"} ->
            {[D EXCEPT !.target = a] : a \in DirectoryResponses}
       [] name = "get_vm_network" ->
            {[D EXCEPT !.target = a, !.second = b] :
               a \in UnitConfigResponses, b \in AgentResponses}
       [] name = "get_firewall_status" ->
            {[D EXCEPT !.target = a, !.second = b] :
               a \in FirewallOptionResponses, b \in FirewallRuleResponses}
       [] name = "get_recent_tasks" ->
            {[D EXCEPT !.nodes = n, !.tasks = q] :
               n \in NodesResponses, q \in [NodeNames -> TaskResponses]}
       [] name \in {"get_help"} \cup UnknownNames -> {D}
       [] OTHER -> {[D EXCEPT !.target = a] : a \in TargetResponses}

-----------------------------------------------------------------------------
(* The state machine *)

NoRequest == [name |-> "", args |-> Undefined]

NoResponse == [kind |-> "none"]

\* No earlier call is remembered.
NoCall == [request |-> NoRequest, response |-> NoResponse, others |-> FALSE]

Init ==
  /\ env \in Environments
  /\ pc = "init"
  /\ proxmox = Null
  /\ initializationError = Null
  /\ connected = FALSE
  /\ exited = FALSE
  /\ request = NoRequest
  /\ requests = <<>>
  /\ response = NoResponse
  /\ cluster = DefaultUpstream
  /\ earlier = NoCall
  /\ inflight = <<>>

\* main(): the process starts, runMCPServer constructs the manager and
\* connects the transport.
Start ==
  /\ pc = "init"
  /\ LET o == main(env)
     IN /\ proxmox' = o.proxmox
        /\ initializationError' = o.initializationError
        /\ connected' = o.connected
        /\ exited' = o.exited
        /\ pc' = IF o.exited THEN "exited" ELSE "serving"
  /\ UNCHANGED <<env, request, requests, response, cluster, earlier, inflight>>

\* A tools/list handler that checks the connection as the tools/call
\* handler does.
ListToolsWhenReady ==
  /\ pc = "serving"
  /\ response' = IF proxmox = Null THEN DegradedAnswer(initializationError)
                                  ELSE ListToolsHandler
  /\ pc' = "responding"
  /\ UNCHANGED <<env, proxmox, initializationError, connected, exited, request, requests,
               cluster, earlier, inflight>>

\* A tools/list request is answered.
ListTools ==
  /\ pc = "serving"
  /\ response' = ListToolsHandler
  /\ pc' = "responding"
  /\ UNCHANGED <<env, proxmox, initializationError, connected, exited, request, requests,
               cluster, earlier, inflight>>

\* A tools/call request is answered: the handler runs to its return, against
\* whatever the upstream answers to the requests it issues.
CallTool ==
  /\ pc = "serving"
  /\ \E name \in CallNames :
       \E args \in ArgsFor(name) :
         \E up \in (IF proxmox = Null THEN {DefaultUpstream} ELSE UpstreamsFor(name)) :
           LET o == CallToolHandler(proxmox, initializationError, name, args, up)
           IN /\ request' = [name |-> name, args |-> args]
              /\ response' = o.response
              /\ requests' = o.requests
  /\ pc' = "responding"
  /\ UNCHANGED <<env, proxmox, initializationError, connected, exited,
               cluster, earlier, inflight>>

\* A server that drops the captured reason once it has been reported.
DeliverForgetting ==
  /\ pc = "responding"
  /\ pc' = "serving"
  /\ request' = NoRequest
  /\ requests' = <<>>
  /\ response' = NoResponse
  /\ initializationError' = Null
  /\ UNCHANGED <<env, proxmox, connected, exited, cluster, earlier, inflight>>

\* The transport has written the response; the server waits for the next
\* request.
Deliver ==
  /\ pc = "responding"
  /\ pc' = "serving"
  /\ request' = NoRequest
  /\ requests' = <<>>
  /\ response' = NoResponse
  /\ UNCHANGED <<env, proxmox, initializationError, connected, exited,
               cluster, earlier, inflight>>

\* SIGINT or SIGTERM: process.exit(0).  The listeners run from the event
\* loop, which main() reaches only after its synchronous part (the
\* construction of the manager) has run.
Signal ==
  /\ pc \in {"serving", "responding"}
  /\ pc' = "exited"
  /\ exited' = TRUE
  /\ connected' = FALSE
  /\ request' = NoRequest
  /\ requests' = <<>>
  /\ response' = NoResponse
  /\ UNCHANGED <<env, proxmox, initializationError, cluster, earlier, inflight>>

Next == Start \/ ListTools \/ CallTool \/ Deliver \/ Signal

Spec == Init /\ [][Next]_vars

\* Startup alone, over host strings long enough to carry a scheme and a
\* port, with both tokens set.
HostInit ==
  /\ env \in [PROXMOX_HOST : LongHosts, PROXMOX_TOKEN_ID : {Str("mcp")},
              PROXMOX_TOKEN_SECRET : {Str("s3cr3t")}]
  /\ pc = "init"
  /\ proxmox = Null
  /\ initializationError = Null
  /\ connected = FALSE
  /\ exited = FALSE
  /\ request = NoRequest
  /\ requests = <<>>
  /\ response = NoResponse
  /\ cluster = DefaultUpstream
  /\ earlier = NoCall
  /\ inflight = <<>>

HostSpec == HostInit /\ [][Start]_vars

-----------------------------------------------------------------------------
(* A session against a backing cluster that does not change *)

\* The tools that read the status of a node, a unit or the cluster.
StatusReads ==
  {"get_nodes", "get_node_status", "get_vm_status", "get_container_status",
   "get_cluster_status"}

\* Backing clusters: node discovery fails or lists a node; a request about
\* one target times out, answers a status object or answers the cluster's
\* status list; the resource listings answer nodes and units.
Clusters ==
  {[DefaultUpstream EXCEPT
      !.nodes = n, !.target = a,
      !.second = Wrapped(Arr(<<NodeResource("pve1", "online", 3)>>)),
      !.third = Wrapped(Arr(<<UnitResource("qemu", "running"), UnitResource("lxc", "stopped")>>))] :
   n \in {Fail("Request failed with status code 500"), Wrapped(Arr(<<NodeEntry(NodeName(1))>>))},
   a \in {Fail("timeout of 30000ms exceeded"),
          Wrapped(Obj([status |-> Str("running"), uptime |-> Num(42)])),
          Wrapped(Arr(<<ClusterEntry(Num(1))>>))}}

\* A configured server and one whose secret is missing.
SessionEnvironments ==
  [PROXMOX_HOST : {Text(<<"h">>)}, PROXMOX_TOKEN_ID : {Str("mcp")},
   PROXMOX_TOKEN_SECRET : {Str("s3cr3t"), Undefined}]

RepeatInit ==
  /\ env \in SessionEnvironments
  /\ pc = "init"
  /\ proxmox = Null
  /\ initializationError = Null
  /\ connected = FALSE
  /\ exited = FALSE
  /\ request = NoRequest
  /\ requests = <<>>
  /\ response = NoResponse
  /\ cluster \in Clusters
  /\ earlier = NoCall
  /\ inflight = <<>>

\* The remembered call, once another call has been answered after it.
Followed(call, name, args) ==
  IF call # NoCall /\ call.request # [name |-> name, args |-> args]
  THEN [call EXCEPT !.others = TRUE]
  ELSE call

\* A server that gives its manager up after a request has failed: the
\* calls that follow are answered as in degraded mode.
CallUnchangedGivingUp ==
  /\ pc = "serving"
  /\ \E name \in CallNames :
       \E args \in ArgsFor(name) :
         LET o == CallToolHandler(proxmox, initializationError, name, args, cluster)
             failed == \E i \in 1..Len(o.requests) : ~o.requests[i].response.ok
         IN /\ request' = [name |-> name, args |-> args]
            /\ response' = o.response
            /\ requests' = o.requests
            /\ earlier' = Followed(earlier, name, args)
            /\ proxmox' = IF failed THEN Null ELSE proxmox
            /\ initializationError' = IF failed THEN Str("upstream lost")
                                      ELSE initializationError
  /\ pc' = "responding"
  /\ UNCHANGED <<env, connected, exited, cluster, inflight>>

\* A tools/call request is answered against the backing cluster as it is:
\* the handler reads the manager and the cluster's answers, and writes
\* nothing that outlives the call.
CallUnchanged ==
  /\ pc = "serving"
  /\ \E name \in CallNames :
       \E args \in ArgsFor(name) :
         LET o == CallToolHandler(proxmox, initializationError, name, args, cluster)
         IN /\ request' = [name |-> name, args |-> args]
            /\ response' = o.response
            /\ requests' = o.requests
            /\ earlier' = Followed(earlier, name, args)
  /\ pc' = "responding"
  /\ UNCHANGED <<env, proxmox, initializationError, connected, exited, cluster, inflight>>

\* The answer to a status read is written to the client, which keeps it to
\* compare it with the answer to the same call later on.
Remember ==
  /\ pc = "responding"
  /\ request.name \in StatusReads
  /\ earlier' = [request |-> request, response |-> response, others |-> FALSE]
  /\ pc' = "serving"
  /\ request' = NoRequest
  /\ requests' = <<>>
  /\ response' = NoResponse
  /\ UNCHANGED <<env, proxmox, initializationError, connected, exited, cluster, inflight>>

RepeatNext == Start \/ CallUnchanged \/ Deliver \/ Remember

RepeatSpec == RepeatInit /\ [][RepeatNext]_vars

-----------------------------------------------------------------------------
(* The calls a client of v0.3.4 may send, with the upstream they meet kept *)

\* The names v0.3.4 lists, and two it does not know.
LegacyCallNames == ToolNames034 \cup {"get_containers", "delete_vm"}

UpgradeInit ==
  /\ env \in SessionEnvironments
  /\ pc = "init"
  /\ proxmox = Null
  /\ initializationError = Null
  /\ connected = FALSE
  /\ exited = FALSE
  /\ request = NoRequest
  /\ requests = <<>>
  /\ response = NoResponse
  /\ cluster = DefaultUpstream
  /\ earlier = NoCall
  /\ inflight = <<>>

\* A tools/call request is answered; the upstream behaviour the call met is
\* kept.
CallObserved ==
  /\ pc = "serving"
  /\ \E name \in LegacyCallNames :
       \E args \in ArgsFor(name) :
         \E up \in (IF proxmox = Null THEN {DefaultUpstream} ELSE UpstreamsFor(name)) :
           LET o == CallToolHandler(proxmox, initializationError, name, args, up)
           IN /\ request' = [name |-> name, args |-> args]
              /\ response' = o.response
              /\ requests' = o.requests
              /\ cluster' = up
  /\ pc' = "responding"
  /\ UNCHANGED <<env, proxmox, initializationError, connected, exited, earlier, inflight>>

\* The response is written; the upstream behaviour of the call is
\* forgotten with it.
DeliverObserved ==
  /\ pc = "responding"
  /\ pc' = "serving"
  /\ request' = NoRequest
  /\ requests' = <<>>
  /\ response' = NoResponse
  /\ cluster' = DefaultUpstream
  /\ UNCHANGED <<env, proxmox, initializationError, connected, exited, earlier, inflight>>

UpgradeNext == Start \/ CallObserved \/ DeliverObserved

UpgradeSpec == UpgradeInit /\ [][UpgradeNext]_vars

-----------------------------------------------------------------------------
(* Tool calls in flight at once *)

\* The calls of the concurrent sessions, each with the upstream behaviour
\* it meets: a failing read, a fan-out of two requests, a write, a summary
\* whose third request fails, a name that is not routed, a call without
\* arguments.
ConcurrentCalls ==
  LET D == DefaultUpstream
      target == Obj([node |-> Str("pve1"), vmid |-> Num(100)])
  IN {[name |-> "get_nodes", args |-> EmptyObj,
       up |-> [D EXCEPT !.nodes = Fail("Request failed with status code 500")]],
      [name |-> "get_vms", args |-> EmptyObj,
       up |-> [D EXCEPT !.nodes = Wrapped(Arr(<<NodeEntry(NodeName(1))>>)),
                        !.qemu[NodeName(1)] = Wrapped(Arr(<<Unit(1)>>))]],
      [name |-> "start_vm", args |-> target, up |-> [D EXCEPT !.target = Wrapped(TaskHandle)]],
      [name |-> "get_cluster_status", args |-> EmptyObj,
       up |-> [D EXCEPT !.target = Wrapped(Arr(<<ClusterEntry(Num(1))>>)),
                        !.second = Wrapped(Arr(<<NodeResource("pve1", "online", 3)>>)),
                        !.third = Fail("timeout of 30000ms exceeded")]],
      [name |-> "delete_vm", args |-> EmptyObj, up |-> D],
      [name |-> "get_vm_status", args |-> Undefined, up |-> D]}

ConcurrentInit ==
  /\ env \in SessionEnvironments
  /\ pc = "init"
  /\ proxmox = Null
  /\ initializationError = Null
  /\ connected = FALSE
  /\ exited = FALSE
  /\ request = NoRequest
  /\ requests = <<>>
  /\ response = NoResponse
  /\ cluster = DefaultUpstream
  /\ earlier = NoCall
  /\ inflight = <<>>

\* The configuration a request is sent with: this.client, as it is read
\* when apiCall runs.
ClientConfig(manager) ==
  IF manager = Null THEN Null
  ELSE [baseURL |-> manager.baseURL, timeout |-> manager.timeout]

\* The requests a call issues from its entry on, one per suspension point:
\* they follow from what the call read at its entry and from the answers to
\* its own earlier requests.
Plan(call) ==
  CallToolHandler(call.manager, call.reason, call.name, call.args, call.up).requests

\* The handler is entered while other calls are suspended: it reads proxmox
\* (and initializationError, when proxmox is null) and runs to its first
\* await.
Accept ==
  /\ pc = "serving"
  /\ Len(inflight) < MaxInFlight
  /\ \E c \in ConcurrentCalls :
       inflight' = Append(inflight,
                          [name |-> c.name, args |-> c.args, up |-> c.up,
                           manager |-> proxmox, reason |-> initializationError,
                           sent |-> <<>>])
  /\ UNCHANGED <<env, pc, proxmox, initializationError, connected, exited,
                 request, requests, response, cluster, earlier>>

\* An apiCall that gives the manager up when its request fails: the calls
\* entered afterwards are answered as in degraded mode.
AwaitGivingUp(i) ==
  /\ pc \in {"serving", "responding"}
  /\ i \in 1..Len(inflight)
  /\ Len(inflight[i].sent) < Len(Plan(inflight[i]))
  /\ \A x \in {Plan(inflight[i])[Len(inflight[i].sent) + 1]} :
       /\ inflight' = [inflight EXCEPT ![i].sent =
                         Append(@, [exchange |-> x, config |-> ClientConfig(proxmox)])]
       /\ proxmox' = IF x.response.ok THEN proxmox ELSE Null
       /\ initializationError' = IF x.response.ok THEN initializationError
                                 ELSE Str(x.response.message)
  /\ UNCHANGED <<env, pc, connected, exited, request, requests, response, cluster, earlier>>

\* The i-th call in flight issues its next request through this.client and
\* is suspended until the answer is there; apiCall writes nothing but its
\* own locals.
Await(i) ==
  /\ pc \in {"serving", "responding"}
  /\ i \in 1..Len(inflight)
  /\ Len(inflight[i].sent) < Len(Plan(inflight[i]))
  /\ \A x \in {Plan(inflight[i])[Len(inflight[i].sent) + 1]} :
       inflight' = [inflight EXCEPT ![i].sent =
                      Append(@, [exchange |-> x, config |-> ClientConfig(proxmox)])]
  /\ UNCHANGED <<env, pc, proxmox, initializationError, connected, exited,
                 request, requests, response, cluster, earlier>>

\* The i-th call in flight has the answers to all its requests and returns:
\* its result is serialised and handed to the transport.
Return(i) ==
  /\ pc = "serving"
  /\ i \in 1..Len(inflight)
  /\ Len(inflight[i].sent) = Len(Plan(inflight[i]))
  /\ \A c \in {inflight[i]} :
       /\ request' = [name |-> c.name, args |-> c.args]
       /\ response' = CallToolHandler(c.manager, c.reason, c.name, c.args, c.up).response
       /\ requests' = [k \in 1..Len(c.sent) |-> c.sent[k].exchange]
       /\ cluster' = c.up
  /\ inflight' = [k \in 1..(Len(inflight) - 1) |->
                    IF k < i THEN inflight[k] ELSE inflight[k + 1]]
  /\ pc' = "responding"
  /\ UNCHANGED <<env, proxmox, initializationError, connected, exited, earlier>>

ConcurrentNext ==
  \/ Start
  \/ Accept
  \/ \E i \in 1..MaxInFlight : Await(i)
  \/ \E i \in 1..MaxInFlight : Return(i)
  \/ Deliver

ConcurrentSpec == ConcurrentInit /\ [][ConcurrentNext]_vars

-----------------------------------------------------------------------------
(* Properties *)

\* The startup outcomes.
Degraded == pc # "init" /\ proxmox = Null

Ready == pc # "init" /\ proxmox # Null

\* A tools/call request has just been answered.
Called == pc = "responding" /\ request # NoRequest

\* A tools/list request has just been answered.
Listed == pc = "responding" /\ request = NoRequest

\* The document the text item of the response spells.
Doc == response.content[1].text

\* Is one of the three connection parameters absent or empty?
AbsentOrEmpty(e) == \E v \in requiredVars : e[v].t = "undefined" \/ e[v].v = ""

\* C1: in degraded mode every tool call, whatever its name and arguments, is
\* answered by the error "Server initialization failed: <reason>" with the
\* reason captured at startup, and no request is sent upstream.
DegradedCallsReportReason ==
  (Degraded /\ Called) =>
    /\ response.kind = "result"
    /\ response.isError
    /\ initializationError = Str(MissingMessage)
    /\ Get(Doc, "error") = Str("Server initialization failed: " \o initializationError.v)
    /\ requests = <<>>

DegradedUnknownCallAnswered ==
  /\ Degraded /\ Called
  /\ request.name \in UnknownNames
  /\ Get(Doc, "error") = Str("Server initialization failed: " \o MissingMessage)

\* C2: once startup is over its outcome never changes: the manager is never
\* constructed again and the captured reason stays what it was.
StartupOutcomeFinal ==
  [][pc # "init" => /\ proxmox' = proxmox
                    /\ initializationError' = initializationError
                    /\ Degraded' = Degraded
                    /\ Ready' = Ready]_vars

DegradedServesAgain ==
  /\ Degraded
  /\ pc = "responding"
  /\ request.name = "get_nodes"
  /\ initializationError # Null

\* C3: startup ends Degraded exactly when the host, the token id or the
\* token secret is absent or empty, and Ready otherwise; either way the
\* process has not exited, the transport is connected and requests are served.
StartupDegradedIffMissing ==
  [][pc = "init" => /\ pc' = "serving"
                    /\ connected'
                    /\ ~exited'
                    /\ Degraded' = AbsentOrEmpty(env)
                    /\ Ready' = ~AbsentOrEmpty(env)
                    /\ (Degraded' => initializationError' # Null)]_vars

DegradedWithEmptySecretServing ==
  /\ pc = "serving"
  /\ Degraded
  /\ connected /\ ~exited
  /\ Truthy(env.PROXMOX_HOST) /\ Truthy(env.PROXMOX_TOKEN_ID)
  /\ env.PROXMOX_TOKEN_SECRET = Str("")

\* C4: a tools/list request is answered with the static catalogue, in the
\* Ready and in the Degraded state alike, whatever calls came before.
ListingAlwaysCatalogue ==
  Listed => response = [kind |-> "tools", tools |-> tools]

DegradedListing ==
  /\ Listed
  /\ Degraded
  /\ response.kind = "tools"
  /\ Len(response.tools) = Cardinality(ToolNames)

\* A well-formed envelope: one text item spelling a JSON document, and the
\* isError flag.
WellFormed(r) ==
  /\ DOMAIN r = {"kind", "content", "isError"}
  /\ r.kind = "result"
  /\ Len(r.content) = 1
  /\ r.content[1].type = "text"
  /\ r.content[1].text.t \in {"object", "array", "string", "number", "boolean", "null"}
  /\ r.isError \in BOOLEAN

\* C5: every tool call, whatever its name, its arguments (an absent
\* arguments object included) and the upstream's answers, is answered by a
\* well-formed envelope: no exception leaves the handler.
CallsAlwaysAnswered ==
  Called => WellFormed(response)

AbsentArgumentsAnswered ==
  /\ Called
  /\ Ready
  /\ request.name = "start_vm"
  /\ request.args = Undefined
  /\ response.isError
  /\ Has(Doc, "error")

\* C6: in the Ready state a call of a name outside the catalogue is answered
\* {error: "Unknown tool: <name>"} and no request is sent upstream.
UnknownToolRejected ==
  (Ready /\ Called /\ request.name \notin ToolNames) =>
    /\ response.kind = "result"
    /\ Doc = Obj([error |-> Str("Unknown tool: " \o request.name)])
    /\ requests = <<>>

UnknownToolCalled ==
  /\ Ready /\ Called
  /\ request.name = "delete_vm"
  /\ request.args = EmptyObj
  /\ Get(Doc, "error") = Str("Unknown tool: delete_vm")

\* The arguments are an object that breaks the tool's own inputSchema.
Malformed == request.args.t = "object" /\ ~Conforms(Schema(request.name), request.args)

\* The arguments satisfy the tool's inputSchema.
WellFormedCall == request.name \in ToolNames /\ Conforms(Schema(request.name), request.args)

\* The only request of the call failed upstream.
SingleRequestFailed == Len(requests) = 1 /\ ~requests[1].response.ok

\* C7: in the Ready state a call of a known tool whose arguments miss a
\* required field, or give it the wrong primitive type, is answered by an
\* error envelope whatever the upstream answers.
MalformedArgumentsRejected ==
  (Ready /\ Called /\ request.name \in ToolNames /\ Malformed) =>
    (response.isError \/ Has(Doc, "error"))

StateChanging ==
  {"start_vm", "stop_vm", "reboot_vm", "create_vm_snapshot",
   "start_container", "stop_container", "reboot_container", "create_container_snapshot"}

\* C8: when the upstream request of a start, stop, reboot or create-snapshot
\* call fails, the answer is {error: <upstream message>} and never a payload
\* with success: true.
FailedWriteReportsError ==
  (Ready /\ Called /\ request.name \in StateChanging /\ WellFormedCall
     /\ SingleRequestFailed) =>
    /\ Doc = Obj([error |-> Str(requests[1].response.message)])
    /\ Get(Doc, "success") # Bool(TRUE)

ListReads == {"get_nodes", "get_storage", "list_vm_snapshots", "list_container_snapshots"}

\* C9: when the upstream request of get_nodes, get_storage,
\* list_vm_snapshots or list_container_snapshots fails, the answer is the
\* top-level {error: <upstream message>} and no success-shaped payload; when
\* it succeeds with a list, get_nodes reports count = the length of nodes.
FailedListReportsError ==
  (Ready /\ Called /\ request.name \in ListReads /\ WellFormedCall /\ Len(requests) = 1) =>
    IF ~requests[1].response.ok
    THEN /\ Doc = Obj([error |-> Str(requests[1].response.message)])
         /\ DOMAIN Doc.v \cap {"nodes", "storage", "snapshots", "count"} = {}
    ELSE (request.name = "get_nodes" /\ Get(Doc, "nodes").t = "array") =>
           Get(Doc, "count") = Num(Len(Get(Doc, "nodes").v))

\* The list an upstream answer carries under data, empty when it failed or
\* carries no list.
ListOf(answer) ==
  IF answer.ok /\ Has(answer.data, "data") /\ answer.data.v.data.t = "array"
  THEN answer.data.v.data.v
  ELSE <<>>

\* Node discovery, the first request of the call, succeeded with a list.
Discovered ==
  /\ Len(requests) >= 1
  /\ requests[1].url = <<"nodes">>
  /\ requests[1].response.ok
  /\ Has(requests[1].response.data, "data")
  /\ requests[1].response.data.v.data.t = "array"

DiscoveredNodes == ListOf(requests[1].response)

RECURSIVE UnitsFrom(_)
\* The units the listings of the i-th and later discovered nodes returned,
\* each with node set to the name of the node that listed it.
UnitsFrom(i) ==
  IF i > Len(DiscoveredNodes) THEN <<>>
  ELSE LET owner == DiscoveredNodes[i].v.node
           units == ListOf(requests[i + 1].response)
       IN [j \in 1..Len(units) |->
             Obj([k \in DOMAIN units[j].v \cup {"node"} |->
                    IF k = "node" THEN owner ELSE units[j].v[k]])]
          \o UnitsFrom(i + 1)

UnitKind == IF request.name = "get_vms" THEN "qemu" ELSE "lxc"

UnitsKey == IF request.name = "get_vms" THEN "vms" ELSE "containers"

\* C10: when node discovery of get_vms or get_containers succeeds with N
\* nodes, every node is asked once and, whichever listings fail, the answer
\* is a success payload whose items are exactly the units of the succeeding
\* nodes, each annotated with its node, with total = the number of items
\* and nodes_checked = N.
PartialListingSucceeds ==
  (Ready /\ Called /\ request.name \in {"get_vms", "get_containers"} /\ Discovered) =>
    /\ Len(requests) = Len(DiscoveredNodes) + 1
    /\ \A i \in 1..Len(DiscoveredNodes) :
         requests[i + 1].url = <<"nodes", DiscoveredNodes[i].v.node.v, UnitKind>>
    /\ ~response.isError
    /\ DOMAIN Doc.v = {UnitsKey, "total", "nodes_checked"}
    /\ Get(Doc, UnitsKey) = Arr(UnitsFrom(1))
    /\ Get(Doc, "total") = Num(Len(UnitsFrom(1)))
    /\ Get(Doc, "nodes_checked") = Num(Len(DiscoveredNodes))

FirstNodeFailsSecondLists ==
  /\ Ready /\ Called
  /\ request.name = "get_vms"
  /\ Discovered
  /\ Len(DiscoveredNodes) = 2
  /\ ~requests[2].response.ok
  /\ Len(ListOf(requests[3].response)) = 1
  /\ Get(Doc, "total") = Num(1)
  /\ Get(Doc, "nodes_checked") = Num(2)
  /\ Get(Doc, "vms").v[1].v.node = Str("pve2")

Aggregations == {"get_vms", "get_containers", "list_templates", "get_recent_tasks"}

\* An aggregation call whose first request was node discovery.
AggregationCalled ==
  /\ Ready /\ Called
  /\ request.name \in Aggregations
  /\ Len(requests) >= 1
  /\ requests[1].url = <<"nodes">>

FetchedTasks ==
  UNION {{<<i, j>> : j \in 1..Len(ListOf(requests[i].response))} :
           i \in {q \in 1..Len(requests) : Last(requests[q].url) = "tasks"}}

StartOf(p) == ListOf(requests[p[1]].response)[p[2]].v.starttime.v

\* The limit of the call: the argument, or the default of the method.
LimitAsked == IF Has(request.args, "limit") THEN request.args.v.limit.v ELSE DefaultLimit

ReturnedTasks == Get(Doc, "tasks").v

\* A get_recent_tasks call with well-typed arguments that answered a list.
TasksReturned ==
  /\ Ready /\ Called
  /\ request.name = "get_recent_tasks"
  /\ WellFormedCall
  /\ LimitAsked >= 0
  /\ Has(Doc, "tasks")

\* C12: the tasks get_recent_tasks returns, for one node or for all, are in
\* descending order of starttime, are the first entries of the whole merged
\* collection in that order (the k-th returned task is the k-th latest task
\* fetched), and are at most limit many.
TasksSortedThenCut ==
  TasksReturned =>
    /\ Len(ReturnedTasks) <= LimitAsked
    /\ Len(ReturnedTasks) = Min(Cardinality(FetchedTasks), LimitAsked)
    /\ Get(Doc, "count") = Num(Len(ReturnedTasks))
    /\ \A k \in 1..(Len(ReturnedTasks) - 1) :
         ReturnedTasks[k].v.starttime.v >= ReturnedTasks[k + 1].v.starttime.v
    /\ \A k \in 1..Len(ReturnedTasks) :
         LET t == ReturnedTasks[k].v.starttime.v
         IN /\ Cardinality({p \in FetchedTasks : StartOf(p) > t}) < k
            /\ Cardinality({p \in FetchedTasks : StartOf(p) >= t}) >= k

MergedTasksCut ==
  /\ TasksReturned
  /\ ~Has(request.args, "node")
  /\ LimitAsked = 2
  /\ Cardinality(FetchedTasks) = 3
  /\ Len(requests) = 3
  /\ Len(ReturnedTasks) = 2
  /\ ReturnedTasks[1].v.starttime = Num(30)
  /\ ReturnedTasks[2].v.starttime = Num(20)

\* A create-snapshot call with well-typed arguments.
SnapshotAsked ==
  /\ Ready /\ Called
  /\ request.name \in {"create_vm_snapshot", "create_container_snapshot"}
  /\ WellFormedCall

\* C13: the body of the POST of a create-snapshot call holds snapname only,
\* without a description key, when description is not supplied or is the
\* empty string, and holds the supplied description unchanged otherwise.
SnapshotBodyDescription ==
  SnapshotAsked =>
    /\ Len(requests) = 1
    /\ requests[1].method = "POST"
    /\ Last(requests[1].url) = "snapshot"
    /\ IF ~Has(request.args, "description") \/ request.args.v.description = Str("")
       THEN /\ DOMAIN requests[1].data.v = {"snapname"}
            /\ requests[1].data.v.snapname = request.args.v.name
       ELSE /\ DOMAIN requests[1].data.v = {"snapname", "description"}
            /\ requests[1].data.v.snapname = request.args.v.name
            /\ requests[1].data.v.description = request.args.v.description

EmptyDescriptionLeftOut ==
  /\ SnapshotAsked
  /\ request.name = "create_container_snapshot"
  /\ Has(request.args, "description")
  /\ request.args.v.description = Str("")
  /\ requests[1].data = Obj([snapname |-> Str("snap1")])

\* The number of segments the colons of a string delimit.
Segments(text) == Cardinality({i \in 1..Len(text.chars) : text.chars[i] = ":"}) + 1

\* A get_task_status call with well-typed arguments.
TaskStatusAsked ==
  /\ Ready /\ Called
  /\ request.name = "get_task_status"
  /\ WellFormedCall

\* C14: get_task_status with a upid of fewer than 3 colon-delimited
\* segments answers {error: "Invalid UPID format"} without any request;
\* with 3 or more it sends exactly one status request for the node and upid.
UpidFormatChecked ==
  TaskStatusAsked =>
    IF Segments(request.args.v.upid) < 3
    THEN /\ Doc = Obj([error |-> Str("Invalid UPID format")])
         /\ requests = <<>>
    ELSE /\ Len(requests) = 1
         /\ requests[1].method = "GET"
         /\ requests[1].url = <<"nodes", request.args.v.node.v, "tasks",
                                request.args.v.upid.v, "status">>

ShortUpidRejected ==
  /\ TaskStatusAsked
  /\ request.args.v.upid = ShortUpid
  /\ Segments(ShortUpid) = 2
  /\ requests = <<>>
  /\ Get(Doc, "error") = Str("Invalid UPID format")

PowerOps ==
  {"start_vm", "stop_vm", "reboot_vm", "start_container", "stop_container", "reboot_container"}

\* What each power operation names: the unit, the verb of its message, the
\* kind and the status endpoint of its path.
PowerLabel(name) == IF name \in {"start_vm", "stop_vm", "reboot_vm"} THEN "VM" ELSE "Container"

PowerKind(name) == IF name \in {"start_vm", "stop_vm", "reboot_vm"} THEN "qemu" ELSE "lxc"

PowerVerb(name) ==
  CASE name \in {"start_vm", "start_container"} -> "start"
    [] name \in {"stop_vm", "stop_container"} -> "stop"
    [] name \in {"reboot_vm", "reboot_container"} -> "reboot"

PowerEndpoint(name) ==
  CASE name \in {"start_vm", "start_container"} -> "start"
    [] name \in {"stop_vm", "stop_container"} -> "shutdown"
    [] name \in {"reboot_vm", "reboot_container"} -> "reboot"

\* A power operation called with well-typed arguments.
PowerAsked ==
  /\ Ready /\ Called
  /\ request.name \in PowerOps
  /\ WellFormedCall

\* The upstream accepted the request and answered a task handle.
Accepted(answer) ==
  /\ answer.ok
  /\ Has(answer.data, "data")
  /\ answer.data.v.data.t = "string"
  /\ answer.data.v.data.v # ""

\* C15: start, stop and reboot of a VM or container send exactly one POST,
\* to the status endpoint of the action, and no request about a task; once
\* the upstream accepts, the answer is {success: true, task_id: <the
\* upstream's task handle>, message: "<VM|Container> <vmid> <action>
\* initiated on node <node>"}.
PowerActionsFireAndForget ==
  PowerAsked =>
    /\ Len(requests) = 1
    /\ requests[1].method = "POST"
    /\ requests[1].url = <<"nodes", request.args.v.node.v, PowerKind(request.name),
                           ToString(request.args.v.vmid.v), "status",
                           PowerEndpoint(request.name)>>
    /\ \A i \in 1..Len(requests) :
         \A j \in 1..Len(requests[i].url) : requests[i].url[j] # "tasks"
    /\ Accepted(requests[1].response) =>
         Doc = Obj([success |-> Bool(TRUE),
                    task_id |-> requests[1].response.data.v.data,
                    message |-> Str(PowerLabel(request.name) \o " "
                                    \o ToString(request.args.v.vmid.v) \o " "
                                    \o PowerVerb(request.name) \o " initiated on node "
                                    \o request.args.v.node.v)])

ContainerStopAccepted ==
  /\ PowerAsked
  /\ request.name = "stop_container"
  /\ Accepted(requests[1].response)
  /\ Last(requests[1].url) = "shutdown"
  /\ Get(Doc, "task_id") = TaskHandle
  /\ Get(Doc, "message") = Str("Container 100 stop initiated on node pve1")

\* A get_vm_network call for a VM (vm_type absent or "qemu") that answered
\* network information.
VmNetworkReturned ==
  /\ Ready /\ Called
  /\ request.name = "get_vm_network"
  /\ WellFormedCall
  /\ ~Has(request.args, "vm_type") \/ request.args.v.vm_type = Str("qemu")
  /\ Has(Doc, "interfaces")

\* The in-guest interface data the agent query delivered, if any.
AgentResult(answer) ==
  IF answer.ok /\ Has(answer.data, "data") /\ Has(answer.data.v.data, "result")
  THEN answer.data.v.data.v.result
  ELSE Null

\* C16: the result of get_vm_network for a VM always has the key
\* agent_network: the agent's interface data when the agent query
\* succeeded, and null when it failed or delivered no result.
AgentNetworkAlwaysPresent ==
  VmNetworkReturned =>
    /\ Len(requests) = 2
    /\ Has(Doc, "agent_network")
    /\ Get(Doc, "agent_network") = AgentResult(requests[2].response)

\* A get_cluster_status call that answered a summary.
SummaryReturned ==
  /\ Ready /\ Called
  /\ request.name = "get_cluster_status"
  /\ Has(Doc, "quorate")
  /\ requests[1].url = <<"cluster", "status">>

\* The first entry of the cluster status payload reports non-quorate: false,
\* or the numeric 0 of the upstream.
ReportsNonQuorate ==
  LET entries == ListOf(requests[1].response)
  IN /\ Len(entries) > 0
     /\ Has(entries[1], "quorate")
     /\ entries[1].v.quorate \in {Bool(FALSE), Num(0)}

\* C17: the summary's quorate is false whenever the status entry reports
\* non-quorate (false or numeric 0), and true otherwise, also when the
\* field or the whole payload is absent.
QuorateUnlessReportedLost ==
  SummaryReturned => Get(Doc, "quorate") = Bool(~ReportsNonQuorate)

\* A get_storage_details call whose configuration request succeeded and
\* that answered details.
StorageDetailsReturned ==
  /\ Ready /\ Called
  /\ request.name = "get_storage_details"
  /\ WellFormedCall
  /\ Len(requests) >= 2
  /\ requests[1].response.ok
  /\ Has(Doc, "storage")

\* The live usage lookup failed: the node listing, or the storage status
\* request of the first node.
UsageLookupFailed ==
  \/ ~requests[2].response.ok
  \/ Len(requests) >= 3 /\ ~requests[3].response.ok

\* C18: when the usage lookup of get_storage_details fails (the node
\* listing or the storage status request), the details carry no status block
\* and the call is not failed; a status block is present only when the
\* usage request succeeded.
NoStatusBlockWithoutUsage ==
  StorageDetailsReturned =>
    /\ UsageLookupFailed => (~Has(Doc, "status") /\ ~Has(Doc, "error"))
    /\ Has(Doc, "status") => (Len(requests) = 3 /\ requests[3].response.ok)

\* How often a pattern occurs in a string.
Occurrences(cs, pat) ==
  Cardinality({i \in 1..(Len(cs) - Len(pat) + 1) : SubSeq(cs, i, i + Len(pat) - 1) = pat})

IsName(cs) == cs # <<>> /\ \A i \in 1..Len(cs) : cs[i] = "h"

IsPort(cs) == cs # <<>> /\ \A i \in 1..Len(cs) : cs[i] = "8"

\* <name> or <name>:<port>
NameAndPort(cs) ==
  \/ IsName(cs)
  \/ \E k \in 2..(Len(cs) - 1) :
       /\ cs[k] = ":"
       /\ IsName(SubSeq(cs, 1, k - 1))
       /\ IsPort(SubSeq(cs, k + 1, Len(cs)))

\* A host string as an operator configures it: a name, optionally followed
\* by a port and optionally preceded by a scheme.
HostShaped(cs) ==
  \/ NameAndPort(cs)
  \/ \E k \in 2..(Len(cs) - 3) :
       /\ IsName(SubSeq(cs, 1, k - 1))
       /\ SubSeq(cs, k, k + 2) = <<":", "/", "/">>
       /\ NameAndPort(SubSeq(cs, k + 3, Len(cs)))

\* The authority of a URL that starts with https://: what stands between
\* that prefix and the next "/".
Authority(url) ==
  LET rest == SubSeq(url, 9, Len(url))
      stop == CHOOSE k \in 1..Len(rest) :
                rest[k] = "/" /\ \A j \in 1..(k - 1) : rest[j] # "/"
  IN SubSeq(rest, 1, stop - 1)

\* C19: for every configured host string, one that already carries a port
\* or a scheme and a port included, the base address of the client has
\* exactly one scheme prefix and exactly one port suffix.
OneSchemeOnePort ==
  (Ready /\ HostShaped(env.PROXMOX_HOST.chars)) =>
    /\ Occurrences(proxmox.baseURL.chars, <<":", "/", "/">>) = 1
    /\ Occurrences(Authority(proxmox.baseURL.chars), <<":">>) = 1

\* A get_backups call with well-typed arguments.
BackupsAsked ==
  /\ Ready /\ Called
  /\ request.name = "get_backups"
  /\ WellFormedCall

\* The path of the content request for a node and a storage.
ContentPath(node, storage) == <<"nodes", node, "storage", storage, "content">>

RECURSIVE BackupsFrom(_)
\* The backups the content requests from the i-th request of the call on
\* delivered: volid, node and storage of every item whose content is backup.
BackupsFrom(i) ==
  IF i > Len(requests) THEN <<>>
  ELSE LET items == ListOf(requests[i].response)
           kept == SelectSeq(items, LAMBDA item : item.v.content = Str("backup"))
       IN [k \in 1..Len(kept) |->
             [volid |-> kept[k].v.volid, node |-> Str(requests[i].url[2]),
              storage |-> Str(requests[i].url[4])]]
          \o BackupsFrom(i + 1)

\* volid, node and storage of the backups the call returned.
BackupsReturned ==
  LET got == Get(Doc, "backups").v
  IN [k \in 1..Len(got) |->
        [volid |-> got[k].v.volid, node |-> Str(got[k].v.node.v),
         storage |-> Str(got[k].v.storage.v)]]

\* The (node, storage) pairs of the listings whose storage holds backups.
BackupPairsListed ==
  LET nodes == ListOf(requests[1].response)
      storages == ListOf(requests[2].response)
  IN {<<nodes[i].v.node.v, storages[j].v.storage.v>> :
        <<i, j>> \in {q \in (1..Len(nodes)) \X (1..Len(storages)) :
                        Occurrences(storages[q[2]].v.content.chars,
                                    <<"b", "a", "c", "k", "u", "p">>) > 0}}

\* C20: get_backups with storage and node sends exactly one content
\* request, for that pair; with neither it sends one content request for
\* every (node, storage) pair whose storage's content includes backup and
\* for no other pair, skips the pairs whose request fails, and returns only
\* the items whose content is backup, each with the node and storage it was
\* listed from, with count = the number of backups returned.
BackupsPerPair ==
  BackupsAsked =>
    /\ (Has(request.args, "storage") /\ Has(request.args, "node")) =>
         /\ Len(requests) = 1
         /\ requests[1].url = ContentPath(request.args.v.node.v, request.args.v.storage.v)
         /\ Has(Doc, "backups") => BackupsReturned = BackupsFrom(1)
    /\ (~Has(request.args, "storage") /\ ~Has(request.args, "node")) =>
         /\ Len(requests) >= 2
         /\ requests[1].url = <<"nodes">>
         /\ requests[2].url = <<"storage">>
         /\ (Discovered /\ requests[2].response.ok /\ Has(Doc, "backups")) =>
              /\ {requests[i].url : i \in 3..Len(requests)} =
                   {ContentPath(q[1], q[2]) : q \in BackupPairsListed}
              /\ Len(requests) - 2 = Cardinality(BackupPairsListed)
              /\ BackupsReturned = BackupsFrom(3)
    /\ Has(Doc, "backups") => Get(Doc, "count") = Num(Len(Get(Doc, "backups").v))

FailedPairSkipped ==
  /\ BackupsAsked
  /\ ~Has(request.args, "storage") /\ ~Has(request.args, "node")
  /\ Discovered
  /\ Len(DiscoveredNodes) = 2
  /\ Len(ListOf(requests[2].response)) = 2
  /\ Len(requests) = 4
  /\ ~requests[3].response.ok
  /\ requests[4].response.ok
  /\ Get(Doc, "count") = Num(1)
  /\ Get(Doc, "backups").v[1].v.node = Str("pve2")
  /\ Get(Doc, "backups").v[1].v.storage = Str("local")

-----------------------------------------------------------------------------
\* C21: a status read that is repeated against an unchanged backing cluster
\* is answered as it was answered before, whatever calls were answered in
\* between.

\* The call just answered repeats the remembered status read.
Repeated == Called /\ earlier # NoCall /\ request = earlier.request

-----------------------------------------------------------------------------
\* C22: for each VM and node tool that v0.3.4 had, the dispatcher of v0.4.2
\* issues the requests and returns the result the dispatcher of v0.3.4
\* issues and returns, for the same arguments and the same upstream answers.

LegacyTools == ToolNames034 \ {"get_cluster_status"}

LegacyDispatchPreserved ==
  Called /\ request.name \in LegacyTools =>
    \A old \in {CallToolHandler034(proxmox, initializationError,
                                   request.name, request.args, cluster)} :
      old.response = response /\ old.requests = requests

\* A VM is asked to stop, the upstream refuses, and both versions answer
\* with the same wrapped failure.
LegacyStopRefused ==
  /\ Called
  /\ Ready
  /\ request.name = "stop_vm"
  /\ Conforms(Schema("stop_vm"), request.args)
  /\ Len(requests) = 1
  /\ ~requests[1].response.ok

-----------------------------------------------------------------------------
\* C23: the names the capability listing holds, the names the dispatcher
\* routes to a handler and the names get_help documents are one set of 32
\* names: a listed tool is never answered with "Unknown tool", and a routed
\* name is listed and documented.

\* The names of a capability listing.
NamesOf(listing) == {listing[i].name : i \in 1..Len(listing)}

\* The names a help document holds, over all its categories.
DocumentedIn(help) ==
  LET cats == Get(help, "categories")
  IN UNION {{Get(cats.v[c].v[j], "name").v : j \in 1..Len(cats.v[c].v)} : c \in DOMAIN cats.v}

UnknownAnswer(name) == Serialize(Obj([error |-> Str("Unknown tool: " \o name)]))

\* The names the switch has a case for, among the names that occur anywhere.
RoutedAmong(names) ==
  {n \in names : Serialize(Route(n, EmptyObj, DefaultUpstream).result) # UnknownAnswer(n)}

ListedRoutedDocumented ==
  /\ Listed =>
       \A listed \in {NamesOf(response.tools)} :
         \A documented \in {DocumentedIn(Serialize(getHelp.result))} :
           \A routed \in {RoutedAmong(listed \cup documented \cup UnknownNames)} :
             /\ listed = routed
             /\ routed = documented
             /\ Cardinality(listed) = 32
  /\ Called /\ Ready /\ request.name \in ToolNames => Doc # UnknownAnswer(request.name)
  /\ Called /\ Ready /\ request.name = "get_help" => DocumentedIn(Doc) = ToolNames

\* get_help is called on a ready server and documents get_help itself.
HelpDocumentsItself ==
  /\ Called
  /\ Ready
  /\ request.name = "get_help"
  /\ "get_help" \in DocumentedIn(Doc)
  /\ Cardinality(DocumentedIn(Doc)) = 32

-----------------------------------------------------------------------------
\* C24: within one fan-out call (get_vms, get_containers, list_templates,
\* get_recent_tasks over all nodes) every discovered node is asked exactly
\* once for each kind of the call, in the order of discovery, whether or not
\* a request to another node has failed: no request is skipped and none is
\* issued twice.

\* The listings a fan-out call asks every node for.
KindsOf(name) ==
  CASE name = "get_vms" -> <<"qemu">>
    [] name = "get_containers" -> <<"lxc">>
    [] name = "list_templates" -> <<"qemu", "lxc">>
    [] name = "get_recent_tasks" -> <<"tasks">>

EveryNodeAskedOnce ==
  AggregationCalled /\ Discovered =>
    \A kinds \in {KindsOf(request.name)} :
      /\ Len(requests) = 1 + Len(DiscoveredNodes) * Len(kinds)
      /\ \A i \in 1..Len(DiscoveredNodes) :
           \A k \in 1..Len(kinds) :
             requests[1 + (i - 1) * Len(kinds) + k].url =
               <<"nodes", DiscoveredNodes[i].v.node.v, kinds[k]>>

\* The first request to the first node fails and all the later requests are
\* issued all the same, to that node and to the next.
FailedSiblingStillAsked ==
  /\ AggregationCalled
  /\ request.name = "list_templates"
  /\ Discovered
  /\ Len(DiscoveredNodes) = 2
  /\ ~requests[2].response.ok
  /\ Len(requests) = 5
  /\ requests[3].url = <<"nodes", "pve1", "lxc">>
  /\ requests[5].url = <<"nodes", "pve2", "lxc">>

-----------------------------------------------------------------------------
\* get_recent_tasks over all nodes, with at least one node discovered.
TasksFannedOut ==
  /\ AggregationCalled
  /\ request.name = "get_recent_tasks"
  /\ Discovered
  /\ Len(DiscoveredNodes) >= 1

\* The limit the i-th discovered node was asked for, as the query spells it.
AskedOf(i) == requests[i + 1].query

Spelled(n) == "limit=" \o ToString(n)

\* C25 as stated: every discovered node is asked for floor(limit / nodes)
\* tasks, so the per-node limits sum to no more than the limit of the call.
EvenShareEachNode ==
  TasksFannedOut =>
    \A share \in {LimitAsked \div Len(DiscoveredNodes)} :
      /\ \A i \in 1..Len(DiscoveredNodes) : AskedOf(i) = Spelled(share)
      /\ share * Len(DiscoveredNodes) <= LimitAsked

\* C25, amended: every discovered node is asked for floor(limit / nodes)
\* tasks when that is not zero and for the whole limit when it is; the
\* per-node limits sum to no more than the limit when the limit is zero or
\* at least the number of nodes, and the answer of a call with a limit that
\* is not negative never holds more than limit tasks.
ShareOrWholeLimit ==
  TasksFannedOut =>
    \A share \in {LimitAsked \div Len(DiscoveredNodes)} :
      \A each \in {IF share # 0 THEN share ELSE LimitAsked} :
        /\ \A i \in 1..Len(DiscoveredNodes) : AskedOf(i) = Spelled(each)
        /\ (LimitAsked = 0 \/ LimitAsked >= Len(DiscoveredNodes)) =>
             each * Len(DiscoveredNodes) <= LimitAsked
        /\ LimitAsked >= 0 => Len(ReturnedTasks) <= LimitAsked
        /\ Get(Doc, "count") = Num(Len(ReturnedTasks))

\* One task is asked for over two nodes: each node is asked for one.
FewerTasksThanNodes ==
  /\ TasksFannedOut
  /\ LimitAsked = 1
  /\ Len(DiscoveredNodes) = 2
  /\ AskedOf(1) = "limit=1"
  /\ AskedOf(2) = "limit=1"
  /\ Len(ReturnedTasks) = 1

-----------------------------------------------------------------------------
\* C26: with calls in flight at once and interleaved at their requests, a
\* call returns what it returns when it runs alone on the server as it
\* started, against the same upstream answers; every request is sent with
\* the configuration built at startup; and no step of a call changes the
\* manager, the degraded reason or the catalogue.

\* The call as it runs alone on the server as startup left it.
Alone ==
  CallToolHandler(main(env).proxmox, main(env).initializationError,
                  request.name, request.args, cluster)

-----------------------------------------------------------------------------
\* C27: the transport client returns the payload under the key data whenever
\* the body of the answer has that key, whatever the payload is, and the
\* body itself only when the key is absent.
PayloadAlwaysUnwrapped ==
  Called /\ Ready =>
    \A i \in 1..Len(requests) :
      requests[i].response.ok =>
        \A body \in {requests[i].response.data} :
          apiCall(requests[i]) = IF Has(body, "data") THEN Get(body, "data") ELSE body

-----------------------------------------------------------------------------
\* The resources of one type among the listed ones.
OfType(listed, type) ==
  SelectSeq(listed, LAMBDA e : Has(e, "type") /\ e.v.type = Str(type))

\* The listed resources of one type that are in one status.
InStatus(listed, type, status) ==
  SelectSeq(OfType(listed, type), LAMBDA e : Has(e, "status") /\ e.v.status = Str(status))

RECURSIVE FieldTotal(_, _)
\* The sum of a numeric field over the entries; an entry without it adds 0.
FieldTotal(entries, field) ==
  IF entries = <<>> THEN 0
  ELSE (IF Has(Head(entries), field) THEN Head(entries).v[field].v ELSE 0)
       + FieldTotal(Tail(entries), field)

\* The counts of one group of the summary agree with the listed units.
Counted(group, units, type) ==
  /\ group.v.total = Num(Len(OfType(units, type)))
  /\ group.v.running = Num(Len(InStatus(units, type, "running")))
  /\ group.v.running.v <= group.v.total.v
  /\ group.v.stopped.v = group.v.total.v - group.v.running.v
  /\ group.v.stopped.v >= 0

\* The usage block of the summary agrees with the listed nodes.
Summed(usage, nodes, max, used) ==
  /\ usage.v.total = Num(FieldTotal(nodes, max))
  /\ usage.v.used = Num(FieldTotal(nodes, used))
  /\ usage.v.free.v = usage.v.total.v - usage.v.used.v

\* C28: every cluster summary is consistent in itself and with the two
\* resource listings: per group running <= total and stopped = total -
\* running >= 0, with qemu resources alone counted as VMs and lxc resources
\* alone as containers; nodes.online <= nodes.total = the number of node
\* details; memory and storage free = total - used, the totals being the
\* sums of the per-node fields.
SummaryConsistent ==
  SummaryReturned =>
    \A nodes \in {OfType(ListOf(requests[2].response), "node")} :
      \A units \in {ListOf(requests[3].response)} :
        /\ Counted(Get(Doc, "virtual_machines"), units, "qemu")
        /\ Counted(Get(Doc, "containers"), units, "lxc")
        /\ Get(Doc, "nodes").v.online.v <= Get(Doc, "nodes").v.total.v
        /\ Get(Doc, "nodes").v.online = Num(Len(InStatus(nodes, "node", "online")))
        /\ Get(Doc, "nodes").v.total = Num(Len(Get(Doc, "nodes").v.details.v))
        /\ Get(Doc, "nodes").v.total = Num(Len(nodes))
        /\ Summed(Get(Doc, "resources").v.memory, nodes, "maxmem", "mem")
        /\ Summed(Get(Doc, "resources").v.storage, nodes, "maxdisk", "disk")

\* Two nodes, one of them offline, two VMs of which one runs, and a
\* container are summarised.
MixedClusterSummarised ==
  /\ SummaryReturned
  /\ Get(Doc, "nodes").v.total = Num(2)
  /\ Get(Doc, "nodes").v.online = Num(1)
  /\ Get(Doc, "virtual_machines").v.total = Num(2)
  /\ Get(Doc, "virtual_machines").v.stopped = Num(1)
  /\ Get(Doc, "containers").v.running = Num(1)
  /\ Get(Doc, "resources").v.memory.v.free = Num(13)

-----------------------------------------------------------------------------
\* C29: the answer to a tool call is marked isError exactly when its payload
\* is an error envelope (has a top-level error key), for degraded answers,
\* for the errors a handler returns and for caught exceptions alike.
ErrorFlagAgreesWithPayload ==
  Called => (response.isError <=> Has(Doc, "error"))

-----------------------------------------------------------------------------
\* C30: every backup a get_backups call returns is on the storage the call
\* names, when it names one, and on the node it names, when it names one,
\* also when it names only one of the two.
BackupFiltersApplied ==
  BackupsAsked /\ Has(Doc, "backups") =>
    \A k \in 1..Len(BackupsReturned) :
      /\ Has(request.args, "storage") =>
           BackupsReturned[k].storage = Str(request.args.v.storage.v)
      /\ Has(request.args, "node") =>
           BackupsReturned[k].node = Str(request.args.v.node.v)

====
